---------------------------- MODULE Spec2Model ----------------------------
(***************************************************************************)
(* A model of epub-lsp (toba/epub-lsp): the position translator            *)
(* (internal/epub position code), the cursor locator (internal/epub/parser)*)
(* and the debounced, concurrent validation pipeline of cmd/epub-lsp.      *)
(*                                                                         *)
(* Three specifications share the module:                                  *)
(*   SpecPos  the position translator applied to bounded documents         *)
(*   SpecLoc  the cursor locator applied to a family of XML documents      *)
(*   Spec     the message loop, the debouncer, the dispatcher, its workers *)
(*            and the publisher of cmd/epub-lsp/main.go                    *)
(***************************************************************************)
EXTENDS Integers, Sequences, FiniteSets, TLC

(***************************************************************************)
(* Bounds of the model.                                                    *)
(***************************************************************************)
\* longest document given to the position translator
MaxLen == 3
\* most children of an element in the locator's structure family
MaxKids == 2
\* most attributes of the element in the locator's attribute family
MaxAttrs == 4
\* most edits (didOpen or didChange with a non-empty URI) of a run
MaxEdits == 3
\* most children of the spine of a package document
MaxRefs == 3

VARIABLES
    \* ---- position translator (SpecPos)
    pdoc,       \* the document: a sequence of bytes
    pop,        \* the last operation applied: "none", "toPos", "toOff", "round"
    poff,       \* the offset argument of the last ByteOffsetToPosition
    ppos,       \* the position argument / result
    pres,       \* the result of the last PositionToByteOffset
    \* ---- cursor locator (SpecLoc)
    ldoc,       \* the raw content of the document
    ltree,      \* the tree Parse built from it
    lop,        \* the last operation applied: "none", "locate"
    loff,       \* the offset argument of the last LocateAtPosition
    lres,       \* its result
    \* ---- the manifest reader (SpecOpf)
    odecl,      \* what the package document declares: the ids of its
                \* manifest items and the children of its spine, in order
    odoc,       \* the bytes of the package document
    oop,        \* the last operation applied: "none", "parsed", "read"
    oinfo,      \* the *ManifestInfo ParseManifest returned
    oorder,     \* spineHrefOrder of validateTocSpineOrder
    \* ---- the navigation queries (SpecNav)
    nws,        \* the WorkspaceReader: its contents, kinds and manifest
    nreq,       \* the request handed to the handler
    nresp,      \* the response it returned
    \* ---- the server (Spec): the message loop of main
    mainPc,     \* where main is: "read" (scanner.Scan), "respond", "send",
                \* "insLock", "insWrite", "insPost", "insUnlock", "done"
    request,    \* the URI and content insertTextDocumentToDiagnostic was given
    isExiting,
    rootPathNotification,    \* main's variable: "chan", or "nil" once sent
    \* ---- shared by main and the consumer
    rootChan,                \* the root paths buffered in rootPathNotification
    textChangedNotification, \* the signals buffered in the channel
    textFromClient,          \* the pending edits: URI -> content
    muTextFromClient,        \* who holds it: "free", "main", "consumer"
    muStdout,
    \* ---- processDiagnosticNotification
    consPc,     \* where the consumer is: "waitRoot", "waitSig", "checkLen",
                \* "lock", "copy", "clear", "drainSig", "unlock", "detect",
                \* "snapshot", "select", "spawn", "collect", "publish",
                \* "pubSend"
    cloneTextFromClient,
    RawFiles,   \* storage.RawFiles
    FileTypes,  \* storage.FileTypes
    Diagnostics, \* storage.Diagnostics
    opfChanged,
    ctxManifest, \* ctx.Manifest
    filesToValidate,
    workers,    \* the workers of the batch: URI -> "running", "done"
    results,    \* the results buffered in the channel
    result,     \* the result being stored and published
    \* ---- history, not in the program
    edits,      \* the edits taken so far; the seq of the last one
    batchNo,    \* the non-empty batches drained so far
    sinceDrain, \* the edits written to the pending map since the last drain
    trace,      \* for each URI, the writes to its Diagnostics entry and the
                \* notifications published for it, in order
    closed,     \* the documents the client has closed and not opened again
    lastEdit    \* for each URI, the content of the last edit written for it

posVars == <<pdoc, pop, poff, ppos, pres>>

locVars == <<ldoc, ltree, lop, loff, lres>>

opfVars == <<odecl, odoc, oop, oinfo, oorder>>

navVars == <<nws, nreq, nresp>>

srvVars ==
    <<mainPc, request, isExiting, rootPathNotification, rootChan,
      textChangedNotification, textFromClient, muTextFromClient, muStdout,
      consPc, cloneTextFromClient, RawFiles, FileTypes, Diagnostics,
      opfChanged, ctxManifest, filesToValidate, workers, results, result,
      edits,
      batchNo, sinceDrain, trace, closed, lastEdit>>

vars == <<posVars, locVars, opfVars, navVars, srvVars>>

(***************************************************************************)
(* Position translator: src/unnamed/part_013.                              *)
(* Offsets are zero-based as in the code; content[i] of the code is        *)
(* content[i+1] here.                                                      *)
(***************************************************************************)
\* the bytes a document is made of; only '\n' is special to the translator
PosBytes == {"a", "\r", "\n"}

Position(line, character) == [Line |-> line, Character |-> character]

\* the loop of PositionToByteOffset from index i on, with the running line, col
RECURSIVE PositionScan(_, _, _, _, _)
PositionScan(content, pos, i, line, col) ==
    IF i >= Len(content)
    THEN \* "Check if position is at the very end"
         IF line = pos.Line /\ col = pos.Character THEN Len(content) ELSE -1
    ELSE IF line = pos.Line /\ col = pos.Character THEN i
    ELSE IF content[i + 1] = "\n"
         THEN PositionScan(content, pos, i + 1, line + 1, 0)
         ELSE PositionScan(content, pos, i + 1, line, col + 1)

\* the same loop without the check after it
RECURSIVE PositionScanNoEnd(_, _, _, _, _)
PositionScanNoEnd(content, pos, i, line, col) ==
    IF i >= Len(content) THEN -1
    ELSE IF line = pos.Line /\ col = pos.Character THEN i
    ELSE IF content[i + 1] = "\n"
         THEN PositionScanNoEnd(content, pos, i + 1, line + 1, 0)
         ELSE PositionScanNoEnd(content, pos, i + 1, line, col + 1)

\* mutant: the position at the very end of the content is not recognised
PositionToByteOffsetNoEnd(content, pos) ==
    PositionScanNoEnd(content, pos, 0, 0, 0)

\* mutant: a position that is not found is clamped to the end of the content
PositionToByteOffsetClamped(content, pos) ==
    LET r == PositionScan(content, pos, 0, 0, 0)
    IN  IF r = -1 THEN Len(content) ELSE r

PositionToByteOffset(content, pos) ==
    PositionScan(content, pos, 0, 0, 0)

\* the loop of ByteOffsetToPosition: i runs over 0 .. offset-1
RECURSIVE OffsetScan(_, _, _, _, _)
OffsetScan(content, offset, i, line, col) ==
    IF i >= offset THEN Position(line, col)
    ELSE IF content[i + 1] = "\n"
         THEN OffsetScan(content, offset, i + 1, line + 1, 0)
         ELSE OffsetScan(content, offset, i + 1, line, col + 1)

ByteOffsetToPosition(content, offset) ==
    IF offset < 0 THEN Position(0, 0)
    ELSE LET o == IF offset > Len(content) THEN Len(content) ELSE offset
         IN  OffsetScan(content, o, 0, 0, 0)

(***************************************************************************)
(* Byte strings.  A Go string or []byte is a sequence of one-character     *)
(* strings; offsets are zero-based as in the code.                         *)
(***************************************************************************)
At(content, i) == content[i + 1]

\* content[from:to] of Go
Slice(content, from, to) == SubSeq(content, from + 1, to)

MinOf(S) == CHOOSE x \in S : \A y \in S : x <= y

\* from + bytes.Index(content[from:], pat), or -1: the first occurrence of
\* pat that starts at or after from
IndexFrom(content, from, pat) ==
    LET hits == {i \in from .. (Len(content) - Len(pat)) :
                    Slice(content, i, i + Len(pat)) = pat}
    IN  IF hits = {} THEN -1 ELSE MinOf(hits)

\* the first offset at or after i that is the end of the content or holds a
\* byte outside S
SkipWhile(content, i, S) ==
    MinOf({j \in i .. Len(content) : j = Len(content) \/ At(content, j) \notin S})

WhiteSpace == {" ", "\t", "\n", "\r"}

Quotes == {"\"", "'"}

(***************************************************************************)
(* The tokenizer Parse drives (encoding/xml's Decoder), for documents made *)
(* of start tags with attributes, end tags, self-closing tags and          *)
(* character data.                                                         *)
(***************************************************************************)
\* the bytes that end a name
NameEnders == WhiteSpace \union Quotes \union {"<", ">", "/", "="}

NameBytes(content) == {content[k] : k \in 1 .. Len(content)} \ NameEnders

\* a qualified name: prefix (Space before translation), local part and the
\* offset after it
SplitName(raw, colon, next) ==
    [Space |-> IF colon < 0 THEN <<>> ELSE Slice(raw, 0, colon),
     Local |-> IF colon < 0 THEN raw ELSE Slice(raw, colon + 1, Len(raw)),
     next |-> next]

NameUpTo(raw, next) == SplitName(raw, IndexFrom(raw, 0, <<":">>), next)

NameBetween(content, i, e) == NameUpTo(Slice(content, i, e), e)

\* the qualified name read at offset i
ReadName(content, i) ==
    NameBetween(content, i, SkipWhile(content, i, NameBytes(content)))

NoTag == [ok |-> FALSE, attrs |-> <<>>, self |-> FALSE, tagEnd |-> -1, next |-> -1]

\* the attributes of a start tag from offset i on, up to its '>' or '/>'.
\* An attribute keeps where it stands in the source (NameAt, ValAt, ValEnd:
\* the offsets of its name, of its value and of its closing quote); the tree
\* Parse builds does not carry them.
RECURSIVE ReadAttrs(_, _, _)
RECURSIVE AttrsAt(_, _, _)
RECURSIVE AttrNamed(_, _, _, _)
RECURSIVE AttrEquals(_, _, _, _, _)
RECURSIVE AttrQuoted(_, _, _, _, _)
RECURSIVE AttrValued(_, _, _, _, _, _)
\* the closing quote is at offset close (-1: none)
AttrValued(content, j, n, q, close, acc) ==
    IF close < 0 THEN NoTag
    ELSE ReadAttrs(content, close + 1,
             Append(acc, [Space |-> n.Space,
                          Local |-> n.Local,
                          Value |-> Slice(content, q + 1, close),
                          NameAt |-> j,
                          ValAt |-> q + 1,
                          ValEnd |-> close]))

\* the opening quote is expected at offset q
AttrQuoted(content, j, n, q, acc) ==
    IF q >= Len(content) \/ At(content, q) \notin Quotes THEN NoTag
    ELSE AttrValued(content, j, n, q,
                    IndexFrom(content, q + 1, <<At(content, q)>>), acc)

\* the '=' is expected at offset e
AttrEquals(content, j, n, e, acc) ==
    IF n.next = j \/ e >= Len(content) \/ At(content, e) # "=" THEN NoTag
    ELSE AttrQuoted(content, j, n, SkipWhile(content, e + 1, WhiteSpace), acc)

\* the attribute named n starts at offset j
AttrNamed(content, j, n, acc) ==
    AttrEquals(content, j, n, SkipWhile(content, n.next, WhiteSpace), acc)

\* j is the first offset after the white space
AttrsAt(content, j, acc) ==
    IF j >= Len(content) THEN NoTag
    ELSE IF At(content, j) = ">"
    THEN [ok |-> TRUE, attrs |-> acc, self |-> FALSE, tagEnd |-> j, next |-> j + 1]
    ELSE IF At(content, j) = "/"
    THEN IF j + 1 < Len(content) /\ At(content, j + 1) = ">"
         THEN [ok |-> TRUE, attrs |-> acc, self |-> TRUE,
               tagEnd |-> j + 1, next |-> j + 2]
         ELSE NoTag
    ELSE AttrNamed(content, j, ReadName(content, j), acc)

ReadAttrs(content, i, acc) == AttrsAt(content, SkipWhile(content, i, WhiteSpace), acc)

\* character data from offset i up to the next '<' at offset lt (-1: none)
TextToken(content, lt) ==
    [kind |-> "text", next |-> IF lt < 0 THEN Len(content) ELSE lt]

\* an end tag at offset i, its name n read, g the offset after the white
\* space that follows the name
EndToken(content, i, n, g) ==
    IF n.next = i + 2 \/ g >= Len(content) \/ At(content, g) # ">"
    THEN [kind |-> "error", next |-> i]
    ELSE [kind |-> "end", next |-> g + 1, Space |-> n.Space, Local |-> n.Local]

EndTokenNamed(content, i, n) ==
    EndToken(content, i, n, SkipWhile(content, n.next, WhiteSpace))

\* a start tag at offset i, its name n and its attributes t read
StartToken(content, i, n, t) ==
    IF n.next = i + 1 \/ ~t.ok
    THEN [kind |-> "error", next |-> i]
    ELSE [kind |-> "start", next |-> t.next, Space |-> n.Space,
          Local |-> n.Local, attrs |-> t.attrs, self |-> t.self,
          tagEnd |-> t.tagEnd]

StartTokenNamed(content, i, n) ==
    StartToken(content, i, n, ReadAttrs(content, n.next, <<>>))

\* decoder.Token() at input offset i
Token(content, i) ==
    IF i >= Len(content) THEN [kind |-> "eof", next |-> i]
    ELSE IF At(content, i) # "<"
    THEN TextToken(content, IndexFrom(content, i, <<"<">>))
    ELSE IF i + 1 < Len(content) /\ At(content, i + 1) = "/"
    THEN EndTokenNamed(content, i, ReadName(content, i + 2))
    ELSE StartTokenNamed(content, i, ReadName(content, i + 1))

\* the namespace bindings in force: a sequence of <<prefix, uri>>, the
\* innermost last
Lookup(env, key) ==
    LET hits == {k \in 1 .. Len(env) : env[k][1] = key}
    IN  IF hits = {} THEN <<FALSE, <<>>>>
        ELSE <<TRUE, env[CHOOSE k \in hits : \A m \in hits : m <= k][2]>>

XmlnsPrefix == <<"x", "m", "l", "n", "s">>

\* the bindings a start tag declares (xmlns:p="uri"; xmlns="uri" binds the
\* empty prefix)
RECURSIVE Declared(_, _)
Declared(attrs, k) ==
    IF k > Len(attrs) THEN <<>>
    ELSE LET a == attrs[k]
             here == IF a.Space = XmlnsPrefix THEN <<(<<a.Local, a.Value>>)>>
                     ELSE IF a.Space = <<>> /\ a.Local = XmlnsPrefix
                          THEN <<(<<(<<>>), a.Value>>)>>
                          ELSE <<>>
         IN  here \o Declared(attrs, k + 1)

\* Decoder.translate: the namespace of a name
Translate(env, space, local, isElementName) ==
    IF space = XmlnsPrefix THEN space
    ELSE IF space = <<>> /\ ~isElementName THEN space
    ELSE IF space = <<>> /\ local = XmlnsPrefix THEN space
    ELSE LET b == Lookup(env, space)
         IN  IF b[1] THEN b[2] ELSE space

(***************************************************************************)
(* Parse: src/unnamed/part_000.  The tree is kept flat: nodes in document  *)
(* order, each with the index of its parent (0: the #document root).       *)
(* Src is not part of XMLNode: it records where the element really stands  *)
(* in the source (the '>' of its start tag, the '<' of its end tag and its *)
(* last byte) and where its attributes stand, for the claims to refer to.  *)
(***************************************************************************)
XMLAttr(a) == [Space |-> a.Space, Local |-> a.Local, Value |-> a.Value]

\* the node of a start tag read at offset, inner the bindings in force in it
NewNode(offset, parent, tok, inner) ==
    [Space |-> Translate(inner, tok.Space, tok.Local, TRUE),
     Local |-> tok.Local,
     Attrs |-> [k \in 1 .. Len(tok.attrs) |->
                   XMLAttr([tok.attrs[k] EXCEPT
                       !.Space = Translate(inner, tok.attrs[k].Space,
                                           tok.attrs[k].Local, FALSE)])],
     Offset |-> offset,
     Parent |-> parent,
     Src |-> [Prefix |-> tok.Space,
              TagEnd |-> tok.tagEnd,
              CloseAt |-> IF tok.self THEN tok.tagEnd ELSE -1,
              End |-> IF tok.self THEN tok.tagEnd ELSE -1,
              Attrs |-> tok.attrs]]

RECURSIVE ParseLoop(_, _, _, _, _)
RECURSIVE ParseStart(_, _, _, _, _, _, _)
RECURSIVE ParseToken(_, _, _, _, _, _)
\* case xml.StartElement
ParseStart(content, offset, stack, envs, nodes, tok, inner) ==
    IF tok.self
    THEN ParseLoop(content, tok.next, stack, envs,
                   Append(nodes, NewNode(offset, stack[Len(stack)], tok, inner)))
    ELSE ParseLoop(content, tok.next, Append(stack, Len(nodes) + 1),
                   Append(envs, inner),
                   Append(nodes, NewNode(offset, stack[Len(stack)], tok, inner)))

\* one turn of the loop on the token read at offset
ParseToken(content, offset, stack, envs, nodes, tok) ==
    IF tok.kind = "eof"
    THEN [nodes |-> nodes, diags |-> IF Len(stack) > 1 THEN 1 ELSE 0]
    ELSE IF tok.kind = "error" THEN [nodes |-> nodes, diags |-> 1]
    ELSE IF tok.kind = "text"
    THEN ParseLoop(content, tok.next, stack, envs, nodes)
    ELSE IF tok.kind = "start"
    THEN ParseStart(content, offset, stack, envs, nodes, tok,
                    envs[Len(envs)] \o Declared(tok.attrs, 1))
    ELSE \* case xml.EndElement
         IF Len(stack) = 1 THEN [nodes |-> nodes, diags |-> 1]
         ELSE IF \/ nodes[stack[Len(stack)]].Src.Prefix # tok.Space
                 \/ nodes[stack[Len(stack)]].Local # tok.Local
         THEN [nodes |-> nodes, diags |-> 1]
         ELSE ParseLoop(content, tok.next,
                        SubSeq(stack, 1, Len(stack) - 1),
                        SubSeq(envs, 1, Len(envs) - 1),
                        [nodes EXCEPT ![stack[Len(stack)]].Src.CloseAt = offset,
                                      ![stack[Len(stack)]].Src.End = tok.next - 1])

ParseLoop(content, offset, stack, envs, nodes) ==
    ParseToken(content, offset, stack, envs, nodes, Token(content, offset))

Parse(content) == ParseLoop(content, 0, <<0>>, <<(<<>>)>>, <<>>)

\* node.Children of node n (0: the #document root), in document order
Children(nodes, n) ==
    LET idx == {k \in 1 .. Len(nodes) : nodes[k].Parent = n}
        RECURSIVE Sorted(_)
        Sorted(S) == IF S = {} THEN <<>>
                     ELSE <<MinOf(S)>> \o Sorted(S \ {MinOf(S)})
    IN  Sorted(idx)

(***************************************************************************)
(* Cursor locator: src/internal/epub/parser/css_test.go, lines 259-491.    *)
(***************************************************************************)
\* findStartTagEnd: the first '>' outside quotes at or after tagStart, or
\* len(content) - 1
RECURSIVE StartTagScan(_, _, _)
StartTagScan(content, i, inString) ==
    IF i >= Len(content) THEN Len(content) - 1
    ELSE LET ch == At(content, i)
         IN  IF inString # ""
             THEN StartTagScan(content, i + 1, IF ch = inString THEN "" ELSE inString)
             ELSE IF ch \in Quotes THEN StartTagScan(content, i + 1, ch)
             ELSE IF ch = ">" THEN i
             ELSE StartTagScan(content, i + 1, "")

findStartTagEnd(content, tagStart) == StartTagScan(content, tagStart, "")

\* mutant: the closing tag is not searched for
findElementEndTagOnly(content, tagStart, local) ==
    findStartTagEnd(content, tagStart)

\* findElementEnd: the '>' of the first "</local" after the start tag, the
\* end of the start tag when the tag is self-closing or no "</local" follows
findElementEnd(content, tagStart, local) ==
    LET startTagEnd == findStartTagEnd(content, tagStart)
        closeTag == <<"<", "/">> \o local
        at == IndexFrom(content, startTagEnd, closeTag)
        gt == IF at < 0 THEN -1
              ELSE IndexFrom(content, at + Len(closeTag), <<">">>)
    IN  IF startTagEnd > 0 /\ At(content, startTagEnd - 1) = "/" THEN startTagEnd
        ELSE IF gt >= 0 THEN gt
        ELSE startTagEnd

\* findDeepestNode(node, content, offset): the first child, in document
\* order, that starts at or before offset and has a covering descendant or
\* covers offset itself; 0 stands for nil
RECURSIVE findDeepestNode(_, _, _, _)
RECURSIVE DeepestAmong(_, _, _, _, _)
DeepestAmong(nodes, kids, k, content, offset) ==
    IF k > Len(kids) THEN 0
    ELSE LET child == kids[k]
         IN  IF nodes[child].Offset > offset
             THEN DeepestAmong(nodes, kids, k + 1, content, offset)
             ELSE LET deeper == findDeepestNode(nodes, child, content, offset)
                      childEnd == findElementEnd(content, nodes[child].Offset,
                                                 nodes[child].Local)
                  IN  IF deeper # 0 THEN deeper
                      ELSE IF offset >= nodes[child].Offset /\ offset <= childEnd
                      THEN child
                      ELSE DeepestAmong(nodes, kids, k + 1, content, offset)

\* a mutation of findDeepestNode: the first child that covers the offset is
\* returned without a look at its descendants
RECURSIVE ShallowAmong(_, _, _, _, _)
ShallowAmong(nodes, kids, k, content, offset) ==
    IF k > Len(kids) THEN 0
    ELSE IF /\ nodes[kids[k]].Offset <= offset
            /\ offset <= findElementEnd(content, nodes[kids[k]].Offset,
                                        nodes[kids[k]].Local)
    THEN kids[k]
    ELSE ShallowAmong(nodes, kids, k + 1, content, offset)

findDeepestNodeShallow(nodes, node, content, offset) ==
    ShallowAmong(nodes, Children(nodes, node), 1, content, offset)

findDeepestNode(nodes, node, content, offset) ==
    DeepestAmong(nodes, Children(nodes, node), 1, content, offset)

\* strings.TrimLeft(text[i:], " \t\n\r"), as the offset it starts at
TrimLeft(text, i) == SkipWhile(text, i, WhiteSpace)

\* namespacePrefixes: the xmlns:prefix="uri" declarations of the tag text, as
\* <<uri, prefix>> pairs in the order found; a later pair for the same uri
\* overwrites an earlier one in the Go map (Lookup takes the last)
RECURSIVE PrefixScan(_, _, _)
PrefixScan(tagText, from, acc) ==
    LET idx == IndexFrom(tagText, from, XmlnsPrefix \o <<":">>)
    IN  IF idx < 0 THEN acc
        ELSE LET p == idx + 6
                 eq == IndexFrom(tagText, p, <<"=">>)
             IN  IF eq < 0 THEN acc
                 ELSE LET q == TrimLeft(tagText, eq + 1)
                      IN  IF q >= Len(tagText) THEN acc
                          ELSE IF At(tagText, q) \notin Quotes
                          THEN PrefixScan(tagText, q, acc)
                          ELSE LET endQ == IndexFrom(tagText, q + 1, <<At(tagText, q)>>)
                               IN  IF endQ < 0 THEN acc
                                   ELSE PrefixScan(tagText, endQ + 1,
                                            Append(acc,
                                                <<Slice(tagText, q + 1, endQ),
                                                  Slice(tagText, p, eq)>>))

namespacePrefixes(tagText) == PrefixScan(tagText, 0, <<>>)

\* whether name at offset idx of tagText is followed by optional white
\* space, '=', optional white space and the quoted value
FollowedByValue(tagText, idx, name, value) ==
    LET r == TrimLeft(tagText, idx + Len(name))
    IN  /\ r < Len(tagText)
        /\ At(tagText, r) = "="
        /\ LET q == TrimLeft(tagText, r + 1)
           IN  /\ q < Len(tagText)
               /\ At(tagText, q) \in Quotes
               /\ LET endQ == IndexFrom(tagText, q + 1, <<At(tagText, q)>>)
                  IN  endQ >= 0 /\ Slice(tagText, q + 1, endQ) = value

\* the loop of findAttributeInTag with search = tagText[base:]
RECURSIVE AttributeScan(_, _, _, _)
AttributeScan(tagText, name, value, base) ==
    LET idx == IndexFrom(tagText, base, name)
    IN  IF idx < 0 THEN -1
        ELSE IF FollowedByValue(tagText, idx, name, value) THEN idx
        ELSE AttributeScan(tagText, name, value, idx + Len(name))

\* findAttributeInTag: the offset in tagText of the first occurrence of name
\* that is followed by = and the quoted value, or -1
findAttributeInTag(tagText, name, value) == AttributeScan(tagText, name, value, 0)

NoAttr == [Attr |-> 0, InValue |-> FALSE]

\* the spelling locateAttribute searches for
attrNameOf(tagText, attr) ==
    IF attr.Space # <<>>
    THEN LET prefix == Lookup(namespacePrefixes(tagText), attr.Space)
         IN  IF prefix[1] THEN prefix[2] \o <<":">> \o attr.Local ELSE attr.Local
    ELSE attr.Local

\* locateAttribute: the first attribute of the node, in order, whose found
\* span name="value" holds offset, as its index in node.Attrs (0: nil)
RECURSIVE AttrLoop(_, _, _, _, _, _)
AttrLoop(content, tagStart, tagText, offset, attrs, i) ==
    IF i > Len(attrs) THEN NoAttr
    ELSE LET attr == attrs[i]
             attrName == attrNameOf(tagText, attr)
             attrPos == findAttributeInTag(tagText, attrName, attr.Value)
             absStart == tagStart + attrPos
             attrLen == Len(attrName) + 1 + 1 + Len(attr.Value) + 1
             absEnd == absStart + attrLen
             valueStart == absStart + Len(attrName) + 2
         IN  IF attrPos < 0
             THEN AttrLoop(content, tagStart, tagText, offset, attrs, i + 1)
             ELSE IF offset >= absStart /\ offset < absEnd
             THEN [Attr |-> i,
                   InValue |-> offset >= valueStart
                               /\ offset <= valueStart + Len(attr.Value)]
             ELSE AttrLoop(content, tagStart, tagText, offset, attrs, i + 1)

locateAttribute(content, tagStart, tagEnd, offset, node) ==
    LET te == IF tagEnd >= Len(content) THEN Len(content) - 1 ELSE tagEnd
        tagText == Slice(content, tagStart, te + 1)
    IN  AttrLoop(content, tagStart, tagText, offset, node.Attrs, 1)

\* the nil *LocateResult
NilResult == [Node |-> 0, Attr |-> 0, InValue |-> FALSE]

\* LocateAtPosition(root, content, offset)
LocateAtPosition(nodes, content, offset) ==
    IF offset < 0 \/ offset >= Len(content) THEN NilResult
    ELSE LET node == findDeepestNode(nodes, 0, content, offset)
         IN  IF node = 0 THEN NilResult
             ELSE LET tagStart == nodes[node].Offset
                      tagEnd == findStartTagEnd(content, tagStart)
                      found == IF offset >= tagStart /\ offset <= tagEnd
                               THEN locateAttribute(content, tagStart, tagEnd,
                                                    offset, nodes[node])
                               ELSE NoAttr
                  IN  [Node |-> node, Attr |-> found.Attr, InValue |-> found.InValue]

(***************************************************************************)
(* The documents the locator is applied to.                                *)
(*   structure family: an element named a, ab or p:a (p bound on the root) *)
(*     holding up to MaxKids children, each a text run or a leaf element   *)
(*     (self-closing or holding text) named a, ab or p:a; and the same     *)
(*     document wrapped in an outer element a after a text run;            *)
(*   attribute family: one element x with up to MaxAttrs distinct          *)
(*     attributes, in any order, out of LocAttrPool;                       *)
(*   blank family: one element x with the attribute id, blanks around its  *)
(*     '=' or not, after an attribute whose name ends in id or not.        *)
(***************************************************************************)
RECURSIVE Concat(_)
Concat(ss) == IF ss = <<>> THEN <<>> ELSE Head(ss) \o Concat(Tail(ss))

LocNames == {<<"a">>, <<"a", "b">>, <<"p", ":", "a">>}

LocText == <<"t">>

EndTag(name) == <<"<", "/">> \o name \o <<">">>

LocLeaves ==
    {<<"<">> \o n \o <<"/", ">">> : n \in LocNames}
    \union {<<"<">> \o n \o <<">">> \o LocText \o EndTag(n) : n \in LocNames}

LocKids == LocLeaves \union {LocText}

\* xmlns:p="u"
DeclP == <<" ", "x", "m", "l", "n", "s", ":", "p", "=", "\"", "u", "\"">>

LocMids ==
    {<<"<">> \o n \o DeclP \o <<">">> \o Concat(ks) \o EndTag(n) :
        n \in LocNames, ks \in UNION {[1 .. k -> LocKids] : k \in 0 .. MaxKids}}

LocWrapped == {<<"<", "a", ">">> \o LocText \o m \o EndTag(<<"a">>) : m \in LocMids}

\* xmlns:a="u"  xmlns:b="w"  a:id="v"  b:id="v"  id="v"
LocAttrPool ==
    {<<"x", "m", "l", "n", "s", ":", "a", "=", "\"", "u", "\"">>,
     <<"x", "m", "l", "n", "s", ":", "b", "=", "\"", "w", "\"">>,
     <<"a", ":", "i", "d", "=", "\"", "v", "\"">>,
     <<"b", ":", "i", "d", "=", "\"", "v", "\"">>,
     <<"i", "d", "=", "\"", "v", "\"">>}

LocAttrLists ==
    {as \in UNION {[1 .. k -> LocAttrPool] : k \in 0 .. MaxAttrs} :
        \A i, j \in 1 .. Len(as) : as[i] = as[j] => i = j}

LocAttrDocs ==
    {<<"<", "x">> \o Concat([k \in 1 .. Len(as) |-> <<" ">> \o as[k]])
        \o <<">">> \o LocText \o EndTag(<<"x">>) : as \in LocAttrLists}

\* kid="w"
LocKid == <<" ", "k", "i", "d", "=", "\"", "w", "\"">>

LocSpaces == {<<>>, <<" ">>}

\* <x id = "v">t</x>, with or without the blanks, after kid="w" or not
LocSpacedDocs ==
    {<<"<", "x">> \o pre \o <<" ", "i", "d">> \o s1 \o <<"=">> \o s2
        \o <<"\"", "v", "\"", ">">> \o LocText \o EndTag(<<"x">>) :
        pre \in {<<>>, LocKid}, s1 \in LocSpaces, s2 \in LocSpaces}

LocDocs == LocMids \union LocWrapped \union LocAttrDocs \union LocSpacedDocs

(***************************************************************************)
(* The helpers of XMLNode (src/unnamed/part_000) on the flat tree; a nil    *)
(* node is -1.                                                             *)
(***************************************************************************)
\* node.Attr(local): the value of the first attribute of that name that has
\* no namespace, or ""
RECURSIVE AttrFrom(_, _, _)
AttrFrom(attrs, i, local) ==
    IF i > Len(attrs) THEN <<>>
    ELSE IF attrs[i].Local = local /\ attrs[i].Space = <<>> THEN attrs[i].Value
    ELSE AttrFrom(attrs, i + 1, local)

Attr(node, local) == AttrFrom(node.Attrs, 1, local)

\* node.FindFirst(local): the children in order, each before its own
\* descendants
RECURSIVE FindFirstAmong(_, _, _, _)
RECURSIVE FindFirstOr(_, _, _, _, _)
FindFirstOr(found, nodes, kids, i, local) ==
    IF found # -1 THEN found
    ELSE FindFirstAmong(nodes, kids, i + 1, local)

FindFirstAmong(nodes, kids, i, local) ==
    IF i > Len(kids) THEN -1
    ELSE IF nodes[kids[i]].Local = local THEN kids[i]
    ELSE FindFirstOr(FindFirstAmong(nodes, Children(nodes, kids[i]), 1, local),
                     nodes, kids, i, local)

FindFirst(nodes, n, local) == FindFirstAmong(nodes, Children(nodes, n), 1, local)

\* node.FindAll(local)
RECURSIVE FindAllAmong(_, _, _, _)
FindAllAmong(nodes, kids, i, local) ==
    IF i > Len(kids) THEN <<>>
    ELSE (IF nodes[kids[i]].Local = local THEN <<kids[i]>> ELSE <<>>)
         \o FindAllAmong(nodes, Children(nodes, kids[i]), 1, local)
         \o FindAllAmong(nodes, kids, i + 1, local)

FindAll(nodes, n, local) == FindAllAmong(nodes, Children(nodes, n), 1, local)

\* node.FindAllNS(space, local)
RECURSIVE FindAllNSAmong(_, _, _, _, _)
FindAllNSAmong(nodes, kids, i, space, local) ==
    IF i > Len(kids) THEN <<>>
    ELSE (IF nodes[kids[i]].Local = local /\ nodes[kids[i]].Space = space
          THEN <<kids[i]>> ELSE <<>>)
         \o FindAllNSAmong(nodes, Children(nodes, kids[i]), 1, space, local)
         \o FindAllNSAmong(nodes, kids, i + 1, space, local)

FindAllNS(nodes, n, space, local) ==
    FindAllNSAmong(nodes, Children(nodes, n), 1, space, local)

(***************************************************************************)
(* ParseManifest on the bytes of a package document: src/unnamed/part_008. *)
(* A nil *ManifestInfo is NilInfo.  The accessibility lists of Metadata,   *)
(* read from the character data of meta elements, are not kept: the tree   *)
(* here carries no character data.                                         *)
(***************************************************************************)
PackageName == <<"p", "a", "c", "k", "a", "g", "e">>

ManifestName == <<"m", "a", "n", "i", "f", "e", "s", "t">>

ItemName == <<"i", "t", "e", "m">>

SpineName == <<"s", "p", "i", "n", "e">>

ItemrefName == <<"i", "t", "e", "m", "r", "e", "f">>

MetadataName == <<"m", "e", "t", "a", "d", "a", "t", "a">>

IdName == <<"i", "d">>

HrefName == <<"h", "r", "e", "f">>

MediaTypeName == <<"m", "e", "d", "i", "a", "-", "t", "y", "p", "e">>

IdrefName == <<"i", "d", "r", "e", "f">>

LinearName == <<"l", "i", "n", "e", "a", "r">>

NoValue == <<"n", "o">>

TitleName == <<"t", "i", "t", "l", "e">>

LanguageName == <<"l", "a", "n", "g", "u", "a", "g", "e">>

SourceName == <<"s", "o", "u", "r", "c", "e">>

dcNS ==
    <<"h", "t", "t", "p", ":", "/", "/", "p", "u", "r", "l", ".", "o", "r",
      "g", "/", "d", "c", "/", "e", "l", "e", "m", "e", "n", "t", "s", "/",
      "1", ".", "1", "/">>

NilInfo == [nil |-> TRUE]

\* the loop over manifest.Children (28-37)
RECURSIVE ManifestItemsFrom(_, _, _)
ManifestItemsFrom(nodes, kids, i) ==
    IF i > Len(kids) THEN <<>>
    ELSE (IF nodes[kids[i]].Local # ItemName THEN <<>>
          ELSE <<[ID |-> Attr(nodes[kids[i]], IdName),
                  Href |-> Attr(nodes[kids[i]], HrefName),
                  MediaType |-> Attr(nodes[kids[i]], MediaTypeName)]>>)
         \o ManifestItemsFrom(nodes, kids, i + 1)

\* a mutation of the loop over spine.Children: each itemref is put in front
RECURSIVE SpineItemsReversed(_, _, _)
SpineItemsReversed(nodes, kids, i) ==
    IF i > Len(kids) THEN <<>>
    ELSE SpineItemsReversed(nodes, kids, i + 1)
         \o (IF nodes[kids[i]].Local # ItemrefName THEN <<>>
             ELSE <<[IDRef |-> Attr(nodes[kids[i]], IdrefName),
                     Linear |-> Attr(nodes[kids[i]], LinearName) # NoValue]>>)

\* the loop over spine.Children (43-52)
RECURSIVE SpineItemsFrom(_, _, _)
SpineItemsFrom(nodes, kids, i) ==
    IF i > Len(kids) THEN <<>>
    ELSE (IF nodes[kids[i]].Local # ItemrefName THEN <<>>
          ELSE <<[IDRef |-> Attr(nodes[kids[i]], IdrefName),
                  Linear |-> Attr(nodes[kids[i]], LinearName) # NoValue]>>)
         \o SpineItemsFrom(nodes, kids, i + 1)

\* the children of a node that may be nil
ChildrenOrNone(nodes, n) == IF n = -1 THEN <<>> ELSE Children(nodes, n)

\* parseMetadataInfo (64-74)
MetadataOf(nodes, metadata) ==
    IF metadata = -1
    THEN [HasTitle |-> FALSE, HasLanguage |-> FALSE, HasDCSource |-> FALSE]
    ELSE [HasTitle |-> FindAllNS(nodes, metadata, dcNS, TitleName) # <<>>,
          HasLanguage |-> FindAllNS(nodes, metadata, dcNS, LanguageName) # <<>>,
          HasDCSource |-> FindAllNS(nodes, metadata, dcNS, SourceName) # <<>>]

\* ParseManifest from the package element on (23-61)
ManifestInfoOf(nodes, pkg) ==
    IF pkg = -1 THEN NilInfo
    ELSE [nil |-> FALSE,
          Items |-> ManifestItemsFrom(nodes,
                        ChildrenOrNone(nodes, FindFirst(nodes, pkg, ManifestName)), 1),
          Spine |-> SpineItemsFrom(nodes,
                        ChildrenOrNone(nodes, FindFirst(nodes, pkg, SpineName)), 1),
          Metadata |-> MetadataOf(nodes, FindFirst(nodes, pkg, MetadataName))]

\* ParseManifest after parser.Parse (14-21)
ManifestInfoOfParsed(parsed) ==
    IF parsed.diags > 0 THEN NilInfo
    ELSE ManifestInfoOf(parsed.nodes, FindFirst(parsed.nodes, 0, PackageName))

\* opf.ParseManifest(content), content the bytes of the document
ParseManifestBytes(content) == ManifestInfoOfParsed(Parse(content))

(***************************************************************************)
(* The order validateTocSpineOrder reads from the context                  *)
(* (src/internal/epub/validator/opf/opf.go, 229-240).                      *)
(***************************************************************************)
\* idToHref[id]: the href of the last manifest item with that id
RECURSIVE IdToHref(_, _, _)
IdToHref(items, i, id) ==
    IF i = 0 THEN [ok |-> FALSE, href |-> <<>>]
    ELSE IF items[i].ID = id THEN [ok |-> TRUE, href |-> items[i].Href]
    ELSE IdToHref(items, i - 1, id)

RECURSIVE SpineHrefsFrom(_, _, _)
SpineHrefsFrom(items, spine, i) ==
    IF i > Len(spine) THEN <<>>
    ELSE (IF IdToHref(items, Len(items), spine[i].IDRef).ok
          THEN <<IdToHref(items, Len(items), spine[i].IDRef).href>>
          ELSE <<>>)
         \o SpineHrefsFrom(items, spine, i + 1)

\* spineHrefOrder
SpineHrefOrder(manifest) == SpineHrefsFrom(manifest.Items, manifest.Spine, 1)

(***************************************************************************)
(* The package documents ParseManifest is applied to.  A declaration names *)
(* the ids of the manifest items in order, whether an itemref strays into  *)
(* the manifest, and the children of the spine in order:                   *)
(*   "A", "B"   <itemref idref="A"/>, <itemref idref="B"/>                 *)
(*   "Bno"      <itemref idref="B" linear="no"/>                           *)
(*   "x"        an element that is no itemref                              *)
(*   "nested"   an itemref inside such an element                          *)
(* The item of id A has href a, the item of id B has href b.               *)
(***************************************************************************)
OpfKidPool == {"A", "B", "Bno", "x", "nested"}

ItemA ==
    <<"<", "i", "t", "e", "m", " ", "i", "d", "=", "\"", "A", "\"", " ",
      "h", "r", "e", "f", "=", "\"", "a", "\"", "/", ">">>

ItemB ==
    <<"<", "i", "t", "e", "m", " ", "i", "d", "=", "\"", "B", "\"", " ",
      "h", "r", "e", "f", "=", "\"", "b", "\"", "/", ">">>

ItemrefA ==
    <<"<", "i", "t", "e", "m", "r", "e", "f", " ", "i", "d", "r", "e", "f",
      "=", "\"", "A", "\"", "/", ">">>

ItemrefB ==
    <<"<", "i", "t", "e", "m", "r", "e", "f", " ", "i", "d", "r", "e", "f",
      "=", "\"", "B", "\"", "/", ">">>

ItemrefBno ==
    <<"<", "i", "t", "e", "m", "r", "e", "f", " ", "i", "d", "r", "e", "f",
      "=", "\"", "B", "\"", " ", "l", "i", "n", "e", "a", "r", "=", "\"",
      "n", "o", "\"", "/", ">">>

ItemrefC ==
    <<"<", "i", "t", "e", "m", "r", "e", "f", " ", "i", "d", "r", "e", "f",
      "=", "\"", "C", "\"", "/", ">">>

OtherKid == <<"<", "x", "/", ">">>

NestedKid ==
    <<"<", "x", ">", "<", "i", "t", "e", "m", "r", "e", "f", " ", "i", "d",
      "r", "e", "f", "=", "\"", "C", "\"", "/", ">", "<", "/", "x", ">">>

PackageOpen == <<"<", "p", "a", "c", "k", "a", "g", "e", ">">>

PackageClose == <<"<", "/", "p", "a", "c", "k", "a", "g", "e", ">">>

ManifestOpen == <<"<", "m", "a", "n", "i", "f", "e", "s", "t", ">">>

ManifestClose == <<"<", "/", "m", "a", "n", "i", "f", "e", "s", "t", ">">>

SpineOpen == <<"<", "s", "p", "i", "n", "e", ">">>

SpineClose == <<"<", "/", "s", "p", "i", "n", "e", ">">>

RenderItem(id) == IF id = "A" THEN ItemA ELSE ItemB

RenderKid(kid) ==
    CASE kid = "A" -> ItemrefA
      [] kid = "B" -> ItemrefB
      [] kid = "Bno" -> ItemrefBno
      [] kid = "x" -> OtherKid
      [] kid = "nested" -> NestedKid

\* the bytes of the package document of a declaration
Render(decl) ==
    PackageOpen
    \o ManifestOpen
    \o Concat([k \in 1 .. Len(decl.items) |-> RenderItem(decl.items[k])])
    \o (IF decl.stray THEN ItemrefC ELSE <<>>)
    \o ManifestClose
    \o (IF decl.spine
        THEN SpineOpen
             \o Concat([k \in 1 .. Len(decl.kids) |-> RenderKid(decl.kids[k])])
             \o SpineClose
        ELSE <<>>)
    \o (IF decl.closed THEN PackageClose ELSE <<>>)

OpfDecls ==
    {[items |-> is, stray |-> st, spine |-> TRUE, closed |-> TRUE, kids |-> ks] :
        is \in {<<"A", "B">>, <<"B", "A">>},
        st \in BOOLEAN,
        ks \in UNION {[1 .. k -> OpfKidPool] : k \in 0 .. MaxRefs}}
    \union
    \* no spine, and a package element left open
    {[items |-> <<"A", "B">>, stray |-> FALSE, spine |-> sp, closed |-> cl,
      kids |-> <<>>] : sp \in BOOLEAN, cl \in BOOLEAN}

NoDecl == [items |-> <<>>, stray |-> FALSE, spine |-> FALSE, closed |-> FALSE,
           kids |-> <<>>]

(***************************************************************************)
(* Navigation queries: src/cmd/epub-lsp/lsp (hover.go, definition.go,      *)
(* completion.go, helpers.go).  A handler is given the request and a       *)
(* WorkspaceReader: ws.files is GetContent and GetAllFiles, ws.fileTypes   *)
(* GetFileType, ws.manifest GetManifest.  A URI is a string; the name of   *)
(* the file it ends in is in FileName.  HandleReferences is not among the  *)
(* sources: it is written from its tests (src/unnamed/part_017) and from   *)
(* the handlers beside it.                                                 *)
(***************************************************************************)

NSEpub ==
    <<"h", "t", "t", "p", ":", "/", "/", "w", "w", "w", ".", "i", "d", "p",
      "f", ".", "o", "r", "g", "/", "2", "0", "0", "7", "/", "o", "p", "s">>

NSDC == dcNS

TypeName == <<"t", "y", "p", "e">>

PropertyName == <<"p", "r", "o", "p", "e", "r", "t", "y">>

MetaName == <<"m", "e", "t", "a">>

UniqueIdentifierName ==
    <<"u", "n", "i", "q", "u", "e", "-", "i", "d", "e", "n", "t", "i", "f",
      "i", "e", "r">>

\* the keys of schemaPropertyDocs
schemaPropertyDocs ==
    {<<"s", "c", "h", "e", "m", "a", ":", "a", "c", "c", "e", "s", "s", "M", "o", "d", "e">>,
     <<"s", "c", "h", "e", "m", "a", ":", "a", "c", "c", "e", "s", "s", "M", "o", "d", "e", "S", "u", "f", "f", "i", "c", "i", "e", "n", "t">>,
     <<"s", "c", "h", "e", "m", "a", ":", "a", "c", "c", "e", "s", "s", "i", "b", "i", "l", "i", "t", "y", "F", "e", "a", "t", "u", "r", "e">>,
     <<"s", "c", "h", "e", "m", "a", ":", "a", "c", "c", "e", "s", "s", "i", "b", "i", "l", "i", "t", "y", "H", "a", "z", "a", "r", "d">>,
     <<"s", "c", "h", "e", "m", "a", ":", "a", "c", "c", "e", "s", "s", "i", "b", "i", "l", "i", "t", "y", "S", "u", "m", "m", "a", "r", "y">>}

\* the keys of epubTypeDocs
epubTypeDocs ==
    {<<"t", "o", "c">>, <<"l", "a", "n", "d", "m", "a", "r", "k", "s">>,
     <<"p", "a", "g", "e", "-", "l", "i", "s", "t">>,
     <<"c", "o", "v", "e", "r">>,
     <<"t", "i", "t", "l", "e", "p", "a", "g", "e">>,
     <<"f", "r", "o", "n", "t", "m", "a", "t", "t", "e", "r">>,
     <<"b", "o", "d", "y", "m", "a", "t", "t", "e", "r">>,
     <<"b", "a", "c", "k", "m", "a", "t", "t", "e", "r">>,
     <<"c", "h", "a", "p", "t", "e", "r">>, <<"p", "a", "r", "t">>,
     <<"f", "o", "o", "t", "n", "o", "t", "e">>,
     <<"e", "n", "d", "n", "o", "t", "e">>,
     <<"n", "o", "t", "e", "r", "e", "f">>,
     <<"b", "i", "b", "l", "i", "o", "g", "r", "a", "p", "h", "y">>,
     <<"g", "l", "o", "s", "s", "a", "r", "y">>,
     <<"i", "n", "d", "e", "x">>, <<"p", "r", "e", "f", "a", "c", "e">>,
     <<"f", "o", "r", "e", "w", "o", "r", "d">>,
     <<"a", "p", "p", "e", "n", "d", "i", "x">>,
     <<"d", "e", "d", "i", "c", "a", "t", "i", "o", "n">>,
     <<"e", "p", "i", "g", "r", "a", "p", "h">>,
     <<"a", "b", "s", "t", "r", "a", "c", "t">>,
     <<"c", "o", "l", "o", "p", "h", "o", "n">>,
     <<"p", "a", "g", "e", "b", "r", "e", "a", "k">>}

\* the keys of dcElementDocs
dcElementDocs ==
    {<<"t", "i", "t", "l", "e">>, <<"c", "r", "e", "a", "t", "o", "r">>,
     <<"l", "a", "n", "g", "u", "a", "g", "e">>,
     <<"i", "d", "e", "n", "t", "i", "f", "i", "e", "r">>,
     <<"p", "u", "b", "l", "i", "s", "h", "e", "r">>,
     <<"d", "a", "t", "e">>,
     <<"d", "e", "s", "c", "r", "i", "p", "t", "i", "o", "n">>,
     <<"r", "i", "g", "h", "t", "s">>,
     <<"s", "u", "b", "j", "e", "c", "t">>,
     <<"c", "o", "n", "t", "r", "i", "b", "u", "t", "o", "r">>,
     <<"t", "y", "p", "e">>, <<"f", "o", "r", "m", "a", "t">>,
     <<"s", "o", "u", "r", "c", "e">>,
     <<"r", "e", "l", "a", "t", "i", "o", "n">>,
     <<"c", "o", "v", "e", "r", "a", "g", "e">>}

\* the labels of schemaPropertyCompletions
schemaPropertyCompletions ==
    <<"schema:accessMode", "schema:accessModeSufficient",
      "schema:accessibilityFeature", "schema:accessibilityHazard",
      "schema:accessibilitySummary">>

\* the labels of mediaTypeCompletions
mediaTypeCompletions ==
    <<"application/xhtml+xml", "application/x-dtbncx+xml", "text/css",
      "image/jpeg", "image/png", "image/gif", "image/svg+xml",
      "image/webp", "application/javascript", "audio/mpeg", "audio/mp4",
      "video/mp4", "application/font-woff", "application/font-sfnt",
      "font/otf", "font/ttf", "font/woff", "font/woff2">>

\* the labels of epubTypeCompletions
epubTypeCompletions ==
    <<"toc", "landmarks", "page-list", "cover", "titlepage", "frontmatter",
      "bodymatter", "backmatter", "chapter", "part", "footnote", "endnote",
      "noteref", "bibliography", "glossary", "index", "preface",
      "foreword", "appendix", "dedication", "epigraph", "abstract",
      "colophon", "pagebreak">>

\* strings.Fields(s): the maximal runs of s without white space
RECURSIVE FieldsFrom(_, _, _, _)
FieldsFrom(s, i, cur, acc) ==
    IF i > Len(s) THEN (IF cur = <<>> THEN acc ELSE Append(acc, cur))
    ELSE IF s[i] \in WhiteSpace
    THEN FieldsFrom(s, i + 1, <<>>, IF cur = <<>> THEN acc ELSE Append(acc, cur))
    ELSE FieldsFrom(s, i + 1, Append(cur, s[i]), acc)

Fields(s) == FieldsFrom(s, 1, <<>>, <<>>)

\* strings.Cut(href, "#")
CutAt(href, i) ==
    IF i < 0 THEN [before |-> href, after |-> <<>>, found |-> FALSE]
    ELSE [before |-> Slice(href, 0, i), after |-> Slice(href, i + 1, Len(href)),
          found |-> TRUE]

Cut(href) == CutAt(href, IndexFrom(href, 0, <<"#">>))

\* epub.StripFragment
StripFragment(ref) == Cut(ref).before

HttpPrefix == <<"h", "t", "t", "p", ":", "/", "/">>

HttpsPrefix == <<"h", "t", "t", "p", "s", ":", "/", "/">>

HasPrefix(s, p) == Len(s) >= Len(p) /\ SubSeq(s, 1, Len(p)) = p

\* epub.IsRemoteURL
IsRemoteURL(href) == HasPrefix(href, HttpPrefix) \/ HasPrefix(href, HttpsPrefix)

\* the URIs of the queries: the document the workspace holds, file c of
\* directory /book, and a document it does not hold
StoredUri == "file:///book/c"

MissingUri == "file:///nonexistent"

\* the last element of the path of a URI
FileName(uri) == IF uri = StoredUri THEN <<"c">> ELSE <<"n", "o", "n", "e", "x", "i", "s", "t", "e", "n", "t">>

\* no URI
NoUri == ""

\* the file a relative reference names, for a reference that is the name of
\* a file of the directory of the document: resolveToFileURI(dirFromURI(uri),
\* href, uri) if the workspace holds it (definition.go, 77-81 and 132-135)
ResolvedTarget(ws, href) ==
    IF \E u \in DOMAIN ws.files : FileName(u) = StripFragment(href)
    THEN CHOOSE u \in DOMAIN ws.files : FileName(u) = StripFragment(href)
    ELSE NoUri

\* the loop over ws.GetAllFiles() with pathEndsWith (84-88, 138-144); the
\* workspace holds at most one file
SuffixTarget(ws, suffix) ==
    IF \E u \in DOMAIN ws.files : FileName(u) = suffix
    THEN CHOOSE u \in DOMAIN ws.files : FileName(u) = suffix
    ELSE NoUri

\* the results a response carries.  A nil slice and a nil pointer are
\* marshalled as null, an empty slice as [].
NullResult == [kind |-> "null", null |-> TRUE, items |-> <<>>]

HoverOf(key) == [kind |-> "hover", null |-> FALSE, items |-> <<key>>]

NilLocations == [kind |-> "locations", null |-> TRUE, items |-> <<>>]

Locations(list) ==
    IF list = <<>> THEN NilLocations
    ELSE [kind |-> "locations", null |-> FALSE, items |-> list]

EmptyLocations == [kind |-> "locations", null |-> FALSE, items |-> <<>>]

CompletionListOf(items) == [kind |-> "completion", null |-> FALSE, items |-> items]

\* marshalResponse and marshalNullResponse (helpers.go, 11-23; hover.go,
\* 127-139): the Error of the ResponseMessage is never set
marshalResponse(id, res) ==
    [sent |-> TRUE, id |-> id, error |-> "nil", result |-> res]

marshalNullResponse(id) == marshalResponse(id, NullResult)

\* a response with its Error set, which no handler builds
ErrorResponse(id) ==
    [sent |-> TRUE, id |-> id, error |-> "InvalidParams", result |-> NullResult]

\* Location{URI: uri, Range: Range{}}
FileLocation(uri) == [URI |-> uri, Start |-> Position(0, 0)]

\* lspPos (helpers.go, 34-39)
lspPos(p) ==
    Position(IF p.Line < 0 THEN 0 ELSE p.Line,
             IF p.Character < 0 THEN 0 ELSE p.Character)

\* the Location of the element at a node
NodeLocation(nodes, content, uri, n) ==
    [URI |-> uri,
     Start |-> lspPos(ByteOffsetToPosition(content, IF n = 0 THEN 0 ELSE nodes[n].Offset))]

\* result.Attr, the attribute of the located node; none for a nil Attr
NoXMLAttr == [Space |-> <<>>, Local |-> <<>>, Value |-> <<>>]

AttrOf(nodes, res) ==
    IF res.Attr = 0 THEN NoXMLAttr ELSE nodes[res.Node].Attrs[res.Attr]

\* the first token of a value that epubTypeDocs documents
RECURSIVE FirstDocumented(_, _)
FirstDocumented(tokens, i) ==
    IF i > Len(tokens) THEN <<>>
    ELSE IF tokens[i] \in epubTypeDocs THEN tokens[i]
    ELSE FirstDocumented(tokens, i + 1)

\* the rule of epub:type values (hover.go, 91-101 and 115-123)
EpubTypeHover(attr, inValue, found) ==
    IF attr.Local = TypeName /\ attr.Space = NSEpub /\ inValue /\ found # <<>>
    THEN HoverOf(found)
    ELSE NullResult

\* hoverXHTML (113-125)
hoverXHTML(nodes, res) ==
    IF res.Attr = 0 THEN NullResult
    ELSE EpubTypeHover(AttrOf(nodes, res), res.InValue,
                       FirstDocumented(Fields(AttrOf(nodes, res).Value), 1))

\* the first manifest item of that id (68-78)
RECURSIVE ItemOfId(_, _, _)
ItemOfId(items, i, id) ==
    IF i > Len(items) THEN <<>>
    ELSE IF items[i].ID = id THEN <<items[i].ID>>
    ELSE ItemOfId(items, i + 1, id)

\* hoverOPF from the rule of dc elements on (103-110)
HoverDC(node) ==
    IF node.Space = NSDC /\ node.Local \in dcElementDocs THEN HoverOf(node.Local)
    ELSE NullResult

\* hoverOPF from the rule of epub:type on (90-110)
HoverEpubType(node, attr, hasAttr, inValue, hover) ==
    IF hasAttr /\ hover # NullResult THEN hover ELSE HoverDC(node)

\* hoverOPF from the rule of meta on (82-110)
HoverMeta(node, attr, hasAttr, inValue) ==
    IF node.Local = MetaName /\ Attr(node, PropertyName) \in schemaPropertyDocs
    THEN HoverOf(Attr(node, PropertyName))
    ELSE HoverEpubType(node, attr, hasAttr, inValue,
             EpubTypeHover(attr, inValue, FirstDocumented(Fields(attr.Value), 1)))

\* hoverOPF (60-111)
HoverItemref(node, attr, hasAttr, inValue, manifest, item) ==
    IF /\ node.Local = ItemrefName
       /\ hasAttr
       /\ attr.Local = IdrefName
       /\ inValue
       /\ item # <<>>
    THEN HoverOf(item[1])
    ELSE HoverMeta(node, attr, hasAttr, inValue)

hoverOPF(nodes, res, ws) ==
    HoverItemref(nodes[res.Node], AttrOf(nodes, res), res.Attr # 0, res.InValue,
                 ws.manifest,
                 IF ws.manifest.nil THEN <<>>
                 ELSE ItemOfId(ws.manifest.Items, 1, AttrOf(nodes, res).Value))

\* findManifestItemByID (definition.go, 165-181)
RECURSIVE ManifestItemById(_, _, _, _, _, _)
ManifestItemById(nodes, content, uri, items, i, id) ==
    IF i > Len(items) THEN <<>>
    ELSE IF Attr(nodes[items[i]], IdName) = id
    THEN <<NodeLocation(nodes, content, uri, items[i])>>
    ELSE ManifestItemById(nodes, content, uri, items, i + 1, id)

findManifestItemByID(nodes, content, uri, id) ==
    ManifestItemById(nodes, content, uri, FindAll(nodes, 0, ItemName), 1, id)

\* findElementByID (183-205): the node itself, then its children in order;
\* the #document root has no attribute, and its id reads ""
RECURSIVE ElementByIdAmong(_, _, _, _, _, _)
RECURSIVE ElementByIdOr(_, _, _, _, _, _, _)
ElementByIdOr(found, nodes, content, uri, kids, i, id) ==
    IF found # <<>> THEN found
    ELSE ElementByIdAmong(nodes, content, uri, kids, i + 1, id)

ElementByIdAmong(nodes, content, uri, kids, i, id) ==
    IF i > Len(kids) THEN <<>>
    ELSE IF Attr(nodes[kids[i]], IdName) = id
    THEN <<NodeLocation(nodes, content, uri, kids[i])>>
    ELSE ElementByIdOr(ElementByIdAmong(nodes, content, uri,
                                        Children(nodes, kids[i]), 1, id),
                       nodes, content, uri, kids, i, id)

findElementByID(nodes, content, uri, id) ==
    IF id = <<>> THEN <<NodeLocation(nodes, content, uri, 0)>>
    ELSE ElementByIdAmong(nodes, content, uri, Children(nodes, 0), 1, id)

\* definitionInOPF for <item href="x"> (75-89) and what follows it (91-96)
DefinitionItem(nodes, content, uri, node, attr, ws, target, suffixed) ==
    IF node.Local = ItemName /\ attr.Local = HrefName /\ target # NoUri
    THEN <<FileLocation(target)>>
    ELSE IF node.Local = ItemName /\ attr.Local = HrefName /\ suffixed # NoUri
    THEN <<FileLocation(suffixed)>>
    ELSE IF node.Local = PackageName /\ attr.Local = UniqueIdentifierName
    THEN findElementByID(nodes, content, uri, attr.Value)
    ELSE <<>>

\* definitionInOPF (56-97)
definitionInOPF(nodes, res, content, uri, ws) ==
    IF res.Attr = 0 \/ ~res.InValue THEN <<>>
    ELSE IF /\ nodes[res.Node].Local = ItemrefName
            /\ AttrOf(nodes, res).Local = IdrefName
    THEN findManifestItemByID(nodes, content, uri, AttrOf(nodes, res).Value)
    ELSE DefinitionItem(nodes, content, uri, nodes[res.Node], AttrOf(nodes, res),
                        ws, ResolvedTarget(ws, AttrOf(nodes, res).Value),
                        SuffixTarget(ws, AttrOf(nodes, res).Value))

\* resolveHrefTarget once the target is known (148-163)
HrefInTarget(ws, targetURI, cut, parsed) ==
    IF targetURI = NoUri THEN <<>>
    ELSE IF ~cut.found \/ cut.after = <<>> THEN <<FileLocation(targetURI)>>
    ELSE IF parsed.diags > 0 THEN <<>>
    ELSE findElementByID(parsed.nodes, ws.files[targetURI], targetURI, cut.after)

\* the target of a reference (127-146)
HrefTarget(ws, uri, cut) ==
    IF cut.before = <<>> THEN uri
    ELSE IF ResolvedTarget(ws, cut.before) # NoUri THEN ResolvedTarget(ws, cut.before)
    ELSE SuffixTarget(ws, cut.before)

HrefResolved(ws, cut, targetURI) ==
    HrefInTarget(ws, targetURI, cut,
                 IF targetURI = NoUri THEN [nodes |-> <<>>, diags |-> 0]
                 ELSE Parse(ws.files[targetURI]))

\* resolveHrefTarget (119-163)
resolveHrefTarget(href, uri, ws) ==
    HrefResolved(ws, Cut(href), HrefTarget(ws, uri, Cut(href)))

\* definitionInXHTML (99-117)
definitionInXHTML(nodes, res, uri, ws) ==
    IF res.Attr = 0 \/ ~res.InValue THEN <<>>
    ELSE IF /\ AttrOf(nodes, res).Local = HrefName
            /\ ~IsRemoteURL(AttrOf(nodes, res).Value)
    THEN resolveHrefTarget(AttrOf(nodes, res).Value, uri, ws)
    ELSE <<>>

\* manifestIDCompletions (completion.go, 120-135): a nil slice without a
\* manifest, a slice of the item ids with one
manifestIDCompletions(ws) ==
    IF ws.manifest.nil THEN <<>>
    ELSE [k \in 1 .. Len(ws.manifest.Items) |-> ws.manifest.Items[k].ID]

\* completionOPF (54-78)
completionOPF(node, attr, hasAttr, inValue, ws) ==
    IF ~hasAttr \/ ~inValue THEN <<>>
    ELSE IF node.Local = MetaName /\ attr.Local = PropertyName
    THEN schemaPropertyCompletions
    ELSE IF node.Local = ItemrefName /\ attr.Local = IdrefName
    THEN manifestIDCompletions(ws)
    ELSE IF node.Local = ItemName /\ attr.Local = MediaTypeName
    THEN mediaTypeCompletions
    ELSE <<>>

\* completionXHTML (80-93)
completionXHTML(attr, hasAttr, inValue) ==
    IF ~hasAttr \/ ~inValue THEN <<>>
    ELSE IF attr.Local = TypeName /\ attr.Space = NSEpub THEN epubTypeCompletions
    ELSE <<>>

\* the references of the located element: the itemref elements that name
\* a manifest item, the elements whose href ends in the fragment of an id
RECURSIVE ReferencesAmong(_, _, _, _, _, _, _)
ReferencesAmong(nodes, content, uri, all, i, name, value) ==
    IF i > Len(nodes) THEN <<>>
    ELSE (IF Attr(nodes[i], name) # <<>>
             /\ (IF all THEN Attr(nodes[i], name) = value
                 ELSE Cut(Attr(nodes[i], name)).after = value)
          THEN <<NodeLocation(nodes, content, uri, i)>> ELSE <<>>)
         \o ReferencesAmong(nodes, content, uri, all, i + 1, name, value)

referencesAt(nodes, res, content, uri, fileType) ==
    IF fileType = "OPF" /\ nodes[res.Node].Local = ItemName
    THEN ReferencesAmong(nodes, content, uri, TRUE, 1, IdrefName,
                         Attr(nodes[res.Node], IdName))
    ELSE IF /\ fileType \in {"XHTML", "Nav"}
            /\ res.Attr # 0
            /\ AttrOf(nodes, res).Local = IdName
    THEN ReferencesAmong(nodes, content, uri, FALSE, 1, HrefName,
                         AttrOf(nodes, res).Value)
    ELSE <<>>

\* HandleHover (hover.go, 14-58), from the located result on (38-57)
HoverLocated(req, ws, nodes, res) ==
    IF res = NilResult THEN marshalNullResponse(req.id)
    ELSE IF ws.fileTypes[req.uri] = "OPF"
    THEN marshalResponse(req.id, hoverOPF(nodes, res, ws))
    ELSE IF ws.fileTypes[req.uri] \in {"XHTML", "Nav"}
    THEN marshalResponse(req.id, hoverXHTML(nodes, res))
    ELSE marshalNullResponse(req.id)

\* from the parsed tree on (33-57)
HoverParsed(req, ws, content, offset, parsed) ==
    IF parsed.diags > 0 THEN marshalNullResponse(req.id)
    ELSE HoverLocated(req, ws, parsed.nodes,
                      LocateAtPosition(parsed.nodes, content, offset))

\* from the offset on (28-57)
HoverOffset(req, ws, content, offset) ==
    IF offset < 0 THEN marshalNullResponse(req.id)
    ELSE HoverParsed(req, ws, content, offset, Parse(content))

\* a mutation of HandleHover: a document the workspace does not hold is
\* answered with an error
HandleHoverStrict(req, ws) ==
    IF ~req.valid THEN marshalNullResponse(0)
    ELSE IF req.uri \notin DOMAIN ws.files THEN ErrorResponse(req.id)
    ELSE HoverOffset(req, ws, ws.files[req.uri],
                     PositionToByteOffset(ws.files[req.uri], req.pos))

\* HandleHover (14-58); a request that does not unmarshal has no id
HandleHover(req, ws) ==
    IF ~req.valid THEN marshalNullResponse(0)
    ELSE IF req.uri \notin DOMAIN ws.files THEN marshalNullResponse(req.id)
    ELSE HoverOffset(req, ws, ws.files[req.uri],
                     PositionToByteOffset(ws.files[req.uri], req.pos))

\* HandleDefinition (definition.go, 14-54), from the located result on
DefinitionLocated(req, ws, content, nodes, res) ==
    IF res = NilResult THEN marshalResponse(req.id, EmptyLocations)
    ELSE IF ws.fileTypes[req.uri] = "OPF"
    THEN marshalResponse(req.id,
             Locations(definitionInOPF(nodes, res, content, req.uri, ws)))
    ELSE IF ws.fileTypes[req.uri] \in {"XHTML", "Nav"}
    THEN marshalResponse(req.id,
             Locations(definitionInXHTML(nodes, res, req.uri, ws)))
    ELSE marshalResponse(req.id, NilLocations)

DefinitionParsed(req, ws, content, offset, parsed) ==
    IF parsed.diags > 0 THEN marshalResponse(req.id, EmptyLocations)
    ELSE DefinitionLocated(req, ws, content, parsed.nodes,
                           LocateAtPosition(parsed.nodes, content, offset))

DefinitionOffset(req, ws, content, offset) ==
    IF offset < 0 THEN marshalResponse(req.id, EmptyLocations)
    ELSE DefinitionParsed(req, ws, content, offset, Parse(content))

HandleDefinition(req, ws) ==
    IF ~req.valid THEN marshalResponse(0, EmptyLocations)
    ELSE IF req.uri \notin DOMAIN ws.files
    THEN marshalResponse(req.id, EmptyLocations)
    ELSE DefinitionOffset(req, ws, ws.files[req.uri],
                          PositionToByteOffset(ws.files[req.uri], req.pos))

\* HandleCompletion (completion.go, 12-52), from the located result on
CompletionLocated(req, ws, nodes, res) ==
    IF res = NilResult THEN marshalResponse(req.id, CompletionListOf(<<>>))
    ELSE IF ws.fileTypes[req.uri] = "OPF"
    THEN marshalResponse(req.id,
             CompletionListOf(completionOPF(nodes[res.Node], AttrOf(nodes, res),
                                            res.Attr # 0, res.InValue, ws)))
    ELSE IF ws.fileTypes[req.uri] \in {"XHTML", "Nav"}
    THEN marshalResponse(req.id,
             CompletionListOf(completionXHTML(AttrOf(nodes, res), res.Attr # 0,
                                              res.InValue)))
    ELSE marshalResponse(req.id, CompletionListOf(<<>>))

CompletionParsed(req, ws, content, offset, parsed) ==
    IF parsed.diags > 0 THEN marshalResponse(req.id, CompletionListOf(<<>>))
    ELSE CompletionLocated(req, ws, parsed.nodes,
                           LocateAtPosition(parsed.nodes, content, offset))

CompletionOffset(req, ws, content, offset) ==
    IF offset < 0 THEN marshalResponse(req.id, CompletionListOf(<<>>))
    ELSE CompletionParsed(req, ws, content, offset, Parse(content))

HandleCompletion(req, ws) ==
    IF ~req.valid THEN marshalResponse(0, CompletionListOf(<<>>))
    ELSE IF req.uri \notin DOMAIN ws.files
    THEN marshalResponse(req.id, CompletionListOf(<<>>))
    ELSE CompletionOffset(req, ws, ws.files[req.uri],
                          PositionToByteOffset(ws.files[req.uri], req.pos))

\* HandleReferences, after HandleDefinition and TestHandleReferences_NoContent
ReferencesLocated(req, ws, content, nodes, res) ==
    IF res = NilResult THEN marshalResponse(req.id, EmptyLocations)
    ELSE marshalResponse(req.id,
             Locations(referencesAt(nodes, res, content, req.uri,
                                    ws.fileTypes[req.uri])))

ReferencesParsed(req, ws, content, offset, parsed) ==
    IF parsed.diags > 0 THEN marshalResponse(req.id, EmptyLocations)
    ELSE ReferencesLocated(req, ws, content, parsed.nodes,
                           LocateAtPosition(parsed.nodes, content, offset))

ReferencesOffset(req, ws, content, offset) ==
    IF offset < 0 THEN marshalResponse(req.id, EmptyLocations)
    ELSE ReferencesParsed(req, ws, content, offset, Parse(content))

HandleReferences(req, ws) ==
    IF ~req.valid THEN marshalResponse(0, EmptyLocations)
    ELSE IF req.uri \notin DOMAIN ws.files
    THEN marshalResponse(req.id, EmptyLocations)
    ELSE ReferencesOffset(req, ws, ws.files[req.uri],
                          PositionToByteOffset(ws.files[req.uri], req.pos))

(***************************************************************************)
(* The documents and the workspaces of the queries.                        *)
(***************************************************************************)
NavSameFile ==
    <<"<", "a", " ", "h", "r", "e", "f", "=", "\"", "\"", ">", "t", "<",
      "/", "a", ">">>

NavTwoLines ==
    <<"\n", "<", "a", " ", "h", "r", "e", "f", "=", "\"", "c", "\"", ">",
      "t", "<", "/", "a", ">">>

NavUnclosed ==
    <<"<", "a", " ", "h", "r", "e", "f", "=", "\"", "\"", ">", "t">>

NavItem ==
    <<"<", "i", "t", "e", "m", " ", "m", "e", "d", "i", "a", "-", "t", "y",
      "p", "e", "=", "\"", "\"", " ", "h", "r", "e", "f", "=", "\"", "c",
      "\"", "/", ">">>

NavEpubType ==
    <<"<", "a", " ", "x", "m", "l", "n", "s", ":", "e", "=", "\"", "h",
      "t", "t", "p", ":", "/", "/", "w", "w", "w", ".", "i", "d", "p", "f",
      ".", "o", "r", "g", "/", "2", "0", "0", "7", "/", "o", "p", "s",
      "\"", " ", "e", ":", "t", "y", "p", "e", "=", "\"", "t", "o", "c",
      "\"", "/", ">">>

NavItemref ==
    <<"<", "i", "t", "e", "m", "r", "e", "f", " ", "i", "d", "r", "e", "f",
      "=", "\"", "A", "\"", "/", ">">>

NavReferred ==
    <<"<", "p", ">", "<", "i", "t", "e", "m", " ", "i", "d", "=", "\"",
      "A", "\"", "/", ">", "<", "i", "t", "e", "m", "r", "e", "f", " ",
      "i", "d", "r", "e", "f", "=", "\"", "A", "\"", "/", ">", "<", "/",
      "p", ">">>

\* the empty document too
NavDocs ==
    {<<>>, NavSameFile, NavTwoLines, NavUnclosed, NavItem, NavEpubType, NavItemref,
     NavReferred}

\* a manifest with the item of id A
ManifestA ==
    [nil |-> FALSE,
     Items |-> <<[ID |-> <<"A">>, Href |-> <<"a">>, MediaType |-> <<>>]>>,
     Spine |-> <<>>,
     Metadata |-> [HasTitle |-> FALSE, HasLanguage |-> FALSE, HasDCSource |-> FALSE]]

\* a workspace holding one document, of any kind; one holding a package
\* document may have a manifest
NavWorkspaces ==
    {[files |-> [u \in {StoredUri} |-> d],
      fileTypes |-> [u \in {StoredUri} |-> t],
      manifest |-> m] :
        d \in NavDocs, t \in {"OPF", "XHTML", "CSS"}, m \in {NilInfo}}
    \union
    {[files |-> [u \in {StoredUri} |-> d],
      fileTypes |-> [u \in {StoredUri} |-> "OPF"],
      manifest |-> ManifestA] : d \in NavDocs}

\* the positions of the queries on a document: every character of the first
\* line and one past its end, and the start of the next two lines
NavPositions(content) ==
    {Position(0, c) : c \in 0 .. (Len(content) + 1)}
    \union {Position(l, c) : l \in 1 .. 2, c \in 0 .. 2}

\* the requests: to the document held or to another one; a request that
\* does not unmarshal carries nothing
NavRequests(method, ws) ==
    {[method |-> method, id |-> 1, valid |-> TRUE, uri |-> u, pos |-> p] :
        u \in {StoredUri, MissingUri}, p \in NavPositions(ws.files[StoredUri])}
    \union
    {[method |-> method, id |-> 0, valid |-> FALSE, uri |-> NoUri,
      pos |-> Position(0, 0)]}

(***************************************************************************)
(* The language server: src/cmd/epub-lsp/main.go.                          *)
(*                                                                         *)
(* Three kinds of goroutine run: the message loop of main, the consumer    *)
(* processDiagnosticNotification, and one worker for each file of the      *)
(* batch being validated.  Each keeps its place in mainPc, consPc and      *)
(* workers; a step of the model is one statement that another goroutine    *)
(* can observe (a lock, an unlock, a channel operation, an access to        *)
(* shared data) together with the local computation that follows it.       *)
(*                                                                         *)
(* A URI is a path and an extension.  A document is one of a few texts,    *)
(* characterised below by what the parser and the validators find in it,   *)
(* and carries the number of the edit that brought it (seq), which the     *)
(* program does not have: it tells two edits of the same text apart.       *)
(***************************************************************************)
\* capacity of rootPathNotification and of textChangedNotification
ChanCap == 2

TargetFileExtensions == <<"opf", "xhtml", "html", "css", "ncx">>

EmptyUri == [path |-> "", ext |-> ""]

OpfUri == [path |-> "book", ext |-> "OPF"]

DocUri == [path |-> "ch", ext |-> "xhtml"]

TxtUri == [path |-> "notes", ext |-> "txt"]

\* the URIs a didClose may carry; the client closes a document the store
\* has taken
CloseUris == {DocUri}

\* the URIs a didOpen or a didChange may carry
Uris == {EmptyUri, OpfUri, DocUri, TxtUri}

\* the texts a document may have:
\*   "ok"   well formed, with a package element, an empty manifest and no
\*          reference to a resource: nothing to report, whatever its kind
\*   "bad"  not well formed
\*   "img"  a well-formed content document with <img src="x.png"/>
Texts == {"ok", "bad", "img"}

\* and, in a batch taken alone:
\*   "okx"     as "ok", with the manifest item x.png
\*   "toc"     a well-formed navigation document, nothing to report
\*   "tocbad"  not well formed, with epub:type="toc" in it
Opf2Uri == [path |-> "alt", ext |-> "opf"]

BatchUris == {OpfUri, Opf2Uri, DocUri}

BatchTextsOf(uri) ==
    IF uri = OpfUri THEN {"okx", "bad", "img"}
    ELSE IF uri = Opf2Uri THEN {"ok", "bad"}
    ELSE {"img", "toc", "tocbad"}

\* the order in which the client sends the files of a drain
Rank(uri) == IF uri = OpfUri THEN 1 ELSE IF uri = Opf2Uri THEN 2 ELSE 3

\* the texts the client sends for a URI
TextsOf(uri) ==
    IF uri = DocUri THEN Texts
    ELSE IF uri = OpfUri THEN {"ok", "bad"}
    ELSE {"ok"}

NoContent == [text |-> "", seq |-> 0]

\* strings.ToLower, on the extensions in use
ToLower(s) == IF s = "OPF" THEN "opf" ELSE s

hasTargetExtension(uri) ==
    \E i \in DOMAIN TargetFileExtensions :
        ToLower(uri.ext) = TargetFileExtensions[i]

\* bytes.Contains(content, `epub:type="toc"`)
isNavDocument(content) == content.text \in {"toc", "tocbad"}

DetectFileType(uri, content) ==
    CASE ToLower(uri.ext) = "opf" -> "OPF"
      [] ToLower(uri.ext) = "css" -> "CSS"
      [] ToLower(uri.ext) = "ncx" -> "NCX"
      [] ToLower(uri.ext) \in {"xhtml", "html"} ->
             IF isNavDocument(content) THEN "Nav" ELSE "XHTML"
      [] OTHER -> "Unknown"

\* the diagnostics parser.Parse returns with the tree
XmlDiags(content) ==
    IF content.text \in {"bad", "tocbad"} THEN <<"epub-xml">> ELSE <<>>

\* root.FindFirst("package") # nil
HasPackage(content) == content.text \in {"ok", "okx"}

\* the hrefs of the manifest items of a package document
ManifestItems(content) == IF content.text = "okx" THEN {"x.png"} ELSE {}

\* the resources a content document refers to (img, link, image, source, ...)
ResourceRefs(content) == IF content.text = "img" THEN {"x.png"} ELSE {}

\* a nil *ManifestInfo
Nil == [nil |-> TRUE, Items |-> {}, from |-> 0]

\* opf.ParseManifest; from is the edit the manifest was parsed from
ParseManifest(content) ==
    IF XmlDiags(content) # <<>> \/ ~HasPackage(content) THEN Nil
    ELSE [nil |-> FALSE, Items |-> ManifestItems(content), from |-> content.seq]

\* maps: a Go map is a function on the set of its keys
EmptyMap == [u \in {} |-> NoContent]

\* a mutation of the store into the pending map: the first content of a URI
\* stays until the drain
KeepFirst(m, k, v) ==
    [u \in DOMAIN m \cup {k} |-> IF u \in DOMAIN m THEN m[u] ELSE v]

\* m[k] = v
Overwrite(m, k, v) == [u \in DOMAIN m \cup {k} |-> IF u = k THEN v ELSE m[u]]

\* for k, v := range b { a[k] = v }
Merge(a, b) ==
    [u \in DOMAIN a \cup DOMAIN b |-> IF u \in DOMAIN b THEN b[u] ELSE a[u]]

\* the entries of the pending map the drain keeps
Targets(m) == [u \in {x \in DOMAIN m : hasTargetExtension(x)} |-> m[u]]

\* a mutation of PostIfEmpty: a signal is posted for every edit
PostAlways(n) == n + 1

\* a mutation of the post: no signal
PostNever(n) == n

\* if len(textChangedNotification) == 0 { textChangedNotification <- true }
PostIfEmpty(n) == IF n = 0 THEN n + 1 ELSE n

\* the validators in the order main registers them
Registry ==
    <<"opf.Validator", "xhtml.Validator", "nav.Validator", "css.Validator",
      "resource.ManifestValidator", "resource.ContentValidator",
      "accessibility.MetadataValidator", "accessibility.PageValidator",
      "accessibility.OPFAccessibilityValidator",
      "accessibility.StructureValidator">>

FileTypesOf(v) ==
    CASE v = "opf.Validator" -> {"OPF"}
      [] v = "xhtml.Validator" -> {"XHTML", "Nav"}
      [] v = "nav.Validator" -> {"Nav"}
      [] v = "css.Validator" -> {"CSS"}
      [] v = "resource.ManifestValidator" -> {"OPF"}
      [] v = "resource.ContentValidator" -> {"XHTML", "Nav"}
      [] v = "accessibility.MetadataValidator" -> {"OPF"}
      [] v = "accessibility.PageValidator" -> {"OPF"}
      [] v = "accessibility.OPFAccessibilityValidator" -> {"OPF"}
      [] v = "accessibility.StructureValidator" -> {"XHTML", "Nav"}

\* one finding for each element of a set
RECURSIVE Findings(_, _)
Findings(code, set) ==
    IF set = {} THEN <<>>
    ELSE LET x == CHOOSE y \in set : TRUE
         IN  <<code>> \o Findings(code, set \ {x})

\* a mutation of the structural validators: nothing is reported
ReportNothing(content) == <<>>

\* a validator that reports the parser's diagnostics and, on a well-formed
\* document, the findings of its own rules: none on the texts modelled
StructuralOnly(content) == XmlDiags(content)

\* Validate of each validator.  ctx.AccessibilitySeverity is never set by
\* main and stays 0, which turns MetadataValidator and
\* OPFAccessibilityValidator off.
Validate(v, uri, content, ctx) ==
    CASE v \in {"opf.Validator", "xhtml.Validator", "nav.Validator"} ->
             StructuralOnly(content)
      [] v = "resource.ManifestValidator" ->
             IF XmlDiags(content) # <<>> \/ ~HasPackage(content) THEN <<>>
             ELSE Findings("RSC_007",
                      {h \in ManifestItems(content) :
                           \A u \in DOMAIN ctx.Files : u.path # h})
      [] v = "resource.ContentValidator" ->
             IF ctx.Manifest = Nil \/ XmlDiags(content) # <<>> THEN <<>>
             ELSE Findings("RSC_008",
                      ResourceRefs(content) \ ctx.Manifest.Items)
      [] OTHER -> <<>>

RECURSIVE ValidateFrom(_, _, _, _, _)
ValidateFrom(i, uri, content, fileType, ctx) ==
    IF i > Len(Registry) THEN <<>>
    ELSE (IF fileType \in FileTypesOf(Registry[i])
          THEN Validate(Registry[i], uri, content, ctx)
          ELSE <<>>)
         \o ValidateFrom(i + 1, uri, content, fileType, ctx)

\* Registry.ValidateFile
ValidateFile(uri, content, fileType, ctx) ==
    ValidateFrom(1, uri, content, fileType, ctx)

\* a mutation of the choice: the drained files only
DrainedOnly(changed, raw, clone) == clone

\* filesToValidate of a batch
FilesToValidate(changed, raw, clone) == IF changed THEN raw ELSE clone

NoRequest == [uri |-> EmptyUri, content |-> NoContent]

NoResult == [uri |-> EmptyUri, diags |-> <<>>, of |-> NoContent]

(***************************************************************************)
(* The parts of the state a specification does not use stay as they are    *)
(* here.                                                                   *)
(***************************************************************************)
NoPosition == Position(-2, -2)

NoWorkspace == [files |-> <<>>, fileTypes |-> <<>>, manifest |-> NilInfo]

NoQuery == [method |-> "none"]

NoResponse == [sent |-> FALSE]

PosIdle ==
    /\ pdoc = <<>>
    /\ pop = "none"
    /\ poff = -2
    /\ ppos = NoPosition
    /\ pres = -2

LocIdle ==
    /\ ldoc = <<>>
    /\ ltree = <<>>
    /\ lop = "none"
    /\ loff = -2
    /\ lres = NilResult

OpfIdle ==
    /\ odecl = NoDecl
    /\ odoc = <<>>
    /\ oop = "none"
    /\ oinfo = NilInfo
    /\ oorder = <<>>

NavIdle ==
    /\ nws = NoWorkspace
    /\ nreq = NoQuery
    /\ nresp = NoResponse

SrvIdle ==
    /\ mainPc = "read"
    /\ request = NoRequest
    /\ isExiting = FALSE
    /\ rootPathNotification = "chan"
    /\ rootChan = 0
    /\ textChangedNotification = 0
    /\ textFromClient = EmptyMap
    /\ muTextFromClient = "free"
    /\ muStdout = "free"
    /\ consPc = "waitRoot"
    /\ cloneTextFromClient = EmptyMap
    /\ RawFiles = EmptyMap
    /\ FileTypes = EmptyMap
    /\ Diagnostics = EmptyMap
    /\ opfChanged = FALSE
    /\ ctxManifest = Nil
    /\ filesToValidate = EmptyMap
    /\ workers = EmptyMap
    /\ results = <<>>
    /\ result = NoResult
    /\ edits = 0
    /\ batchNo = 0
    /\ sinceDrain = <<>>
    /\ trace = [u \in Uris |-> <<>>]
    /\ closed = {}
    /\ lastEdit = EmptyMap

(***************************************************************************)
(* SpecPos: the translator applied to every document of at most MaxLen     *)
(* bytes, every offset from -1 to one past the end, and every position     *)
(* with line and character from -1 to one more than the document can hold. *)
(***************************************************************************)
PosDocs == UNION {[1..n -> PosBytes] : n \in 0..MaxLen}

PosOffsets(content) == -1 .. (Len(content) + 1)

PosInputs == {Position(l, c) : l \in -1 .. (MaxLen + 1), c \in -1 .. (MaxLen + 1)}

PosInit ==
    /\ pdoc \in PosDocs
    /\ pop = "none"
    /\ poff = -2
    /\ ppos = NoPosition
    /\ pres = -2
    /\ LocIdle
    /\ OpfIdle
    /\ NavIdle
    /\ SrvIdle

\* ByteOffsetToPosition(pdoc, o)
ToPosition ==
    \E o \in PosOffsets(pdoc) :
        /\ pop = "none"
        /\ pop' = "toPos"
        /\ poff' = o
        /\ ppos' = ByteOffsetToPosition(pdoc, o)
        /\ pres' = -2
        /\ UNCHANGED <<pdoc, locVars, opfVars, navVars, srvVars>>

\* PositionToByteOffset(pdoc, p)
ToOffset ==
    \E p \in PosInputs :
        /\ pop = "none"
        /\ pop' = "toOff"
        /\ poff' = -2
        /\ ppos' = p
        /\ pres' = PositionToByteOffset(pdoc, p)
        /\ UNCHANGED <<pdoc, locVars, opfVars, navVars, srvVars>>

\* PositionToByteOffset(pdoc, ByteOffsetToPosition(pdoc, o)): the round trip
\* of TestPositionToByteOffset_RoundTrip, on the position computed last
RoundTrip ==
    /\ pop = "toPos"
    /\ pop' = "round"
    /\ pres' = PositionToByteOffset(pdoc, ppos)
    /\ UNCHANGED <<pdoc, poff, ppos, locVars, opfVars, navVars, srvVars>>

PosNext == ToPosition \/ ToOffset \/ RoundTrip

SpecPos == PosInit /\ [][PosNext]_vars

(***************************************************************************)
(* SpecLoc: the locator applied to every document of LocDocs, parsed by    *)
(* Parse, at every offset from -1 to one past the end.                     *)
(***************************************************************************)
LocInit ==
    /\ ldoc \in LocDocs
    /\ ltree = Parse(ldoc).nodes
    /\ lop = "none"
    /\ loff = -2
    /\ lres = NilResult
    /\ PosIdle
    /\ OpfIdle
    /\ NavIdle
    /\ SrvIdle

\* LocateAtPosition(root, content, o)
Locate ==
    \E o \in -1 .. (Len(ldoc) + 1) :
        /\ lop = "none"
        /\ lop' = "locate"
        /\ loff' = o
        /\ lres' = LocateAtPosition(ltree, ldoc, o)
        /\ UNCHANGED <<ldoc, ltree, posVars, opfVars, navVars, srvVars>>

LocNext == Locate

SpecLoc == LocInit /\ [][LocNext]_vars

(***************************************************************************)
(* SpecOpf: ParseManifest applied to the package document of every         *)
(* declaration of OpfDecls, then the order validateTocSpineOrder reads     *)
(* from the Manifest Info of the context.                                  *)
(***************************************************************************)
OpfInit ==
    /\ odecl \in OpfDecls
    /\ odoc = Render(odecl)
    /\ oop = "none"
    /\ oinfo = NilInfo
    /\ oorder = <<>>
    /\ PosIdle
    /\ LocIdle
    /\ NavIdle
    /\ SrvIdle

\* ctx.Manifest = opf.ParseManifest(content) (main.go, 291-296)
ParseOpf ==
    /\ oop = "none"
    /\ oop' = "parsed"
    /\ oinfo' = ParseManifestBytes(odoc)
    /\ UNCHANGED <<odecl, odoc, oorder, posVars, locVars, navVars, srvVars>>

\* validateTocSpineOrder builds spineHrefOrder, the context having a
\* manifest (opf.go, 77-80 and 229-240)
ReadOrder ==
    /\ oop = "parsed"
    /\ ~oinfo.nil
    /\ oop' = "read"
    /\ oorder' = SpineHrefOrder(oinfo)
    /\ UNCHANGED <<odecl, odoc, oinfo, posVars, locVars, navVars, srvVars>>

OpfNext == ParseOpf \/ ReadOrder

SpecOpf == OpfInit /\ [][OpfNext]_vars

(***************************************************************************)
(* SpecNav: one query of each kind, at every position of NavPositions, to  *)
(* every workspace of NavWorkspaces.                                       *)
(***************************************************************************)
NavInit ==
    /\ nws \in NavWorkspaces
    /\ nreq = NoQuery
    /\ nresp = NoResponse
    /\ PosIdle
    /\ LocIdle
    /\ OpfIdle
    /\ SrvIdle

\* textDocument/hover
Hover ==
    \E req \in NavRequests("hover", nws) :
        /\ nreq = NoQuery
        /\ nreq' = req
        /\ nresp' = HandleHover(req, nws)
        /\ UNCHANGED <<nws, posVars, locVars, opfVars, srvVars>>

\* textDocument/definition
Definition ==
    \E req \in NavRequests("definition", nws) :
        /\ nreq = NoQuery
        /\ nreq' = req
        /\ nresp' = HandleDefinition(req, nws)
        /\ UNCHANGED <<nws, posVars, locVars, opfVars, srvVars>>

\* textDocument/references
References ==
    \E req \in NavRequests("references", nws) :
        /\ nreq = NoQuery
        /\ nreq' = req
        /\ nresp' = HandleReferences(req, nws)
        /\ UNCHANGED <<nws, posVars, locVars, opfVars, srvVars>>

\* textDocument/completion
Completion ==
    \E req \in NavRequests("completion", nws) :
        /\ nreq = NoQuery
        /\ nreq' = req
        /\ nresp' = HandleCompletion(req, nws)
        /\ UNCHANGED <<nws, posVars, locVars, opfVars, srvVars>>

NavNext == Hover \/ Definition \/ References \/ Completion

SpecNav == NavInit /\ [][NavNext]_vars

(***************************************************************************)
(* Spec: the server.  Init is the state main builds before its loop        *)
(* (62-98); the consumer is started and waits for the root path.           *)
(***************************************************************************)
Init ==
    /\ SrvIdle
    /\ PosIdle
    /\ LocIdle
    /\ OpfIdle
    /\ NavIdle

\* the process runs until main returns
Running == mainPc # "done"

\* the WorkspaceContext of the batch (285-289): Files and FileTypes are the
\* maps of the store themselves
Ctx == [Files |-> RawFiles, FileTypes |-> FileTypes, Manifest |-> ctxManifest]

\* the package documents of the store that ParseManifest accepts (291-293)
ManifestSources ==
    {u \in DOMAIN RawFiles :
        FileTypes[u] = "OPF" /\ ParseManifest(RawFiles[u]) # Nil}

\* every worker has sent its result and every result has been received
BatchComplete ==
    /\ results = <<>>
    /\ \A u \in DOMAIN workers : workers[u] = "done"

\* case lsp.MethodInitialize (122-131) with notifyTheRootPath (209-215):
\* the root path is sent once, then main's channel variable is nil
Initialize ==
    /\ mainPc = "read"
    /\ ~isExiting
    /\ rootChan' = IF rootPathNotification = "chan" THEN rootChan + 1 ELSE rootChan
    /\ rootPathNotification' = "nil"
    /\ mainPc' = "respond"
    /\ UNCHANGED <<request, isExiting, textChangedNotification,
                   textFromClient, muTextFromClient, muStdout, consPc,
                   cloneTextFromClient, RawFiles, FileTypes, Diagnostics,
                   opfChanged, ctxManifest, filesToValidate, workers,
                   results, result, edits, batchNo, sinceDrain, trace,
                   posVars, locVars, opfVars, navVars, closed,
                   lastEdit>>

\* case lsp.MethodInitialized (133-134): nothing to do, nothing to answer
Initialized ==
    /\ mainPc = "read"
    /\ ~isExiting
    /\ mainPc' = "read"
    /\ UNCHANGED <<request, isExiting, rootPathNotification, rootChan,
                   textChangedNotification, textFromClient, muTextFromClient,
                   muStdout, consPc, cloneTextFromClient, RawFiles,
                   FileTypes, Diagnostics, opfChanged, ctxManifest,
                   filesToValidate, workers, results, result, edits, batchNo,
                   sinceDrain, trace, posVars, locVars, opfVars, navVars, closed,
                   lastEdit>>

\* case lsp.MethodShutdown (136-139)
Shutdown ==
    /\ mainPc = "read"
    /\ ~isExiting
    /\ isExiting' = TRUE
    /\ mainPc' = "respond"
    /\ UNCHANGED <<request, rootPathNotification, rootChan,
                   textChangedNotification, textFromClient, muTextFromClient,
                   muStdout, consPc, cloneTextFromClient, RawFiles,
                   FileTypes, Diagnostics, opfChanged, ctxManifest,
                   filesToValidate, workers, results, result, edits, batchNo,
                   sinceDrain, trace, posVars, locVars, opfVars, navVars, closed,
                   lastEdit>>

\* a mutation of AcceptEdit: the edit is taken after a shutdown too
AcceptEditAlways(uri, text) ==
    /\ mainPc = "read"
    /\ IF uri = EmptyUri
       THEN UNCHANGED <<mainPc, request, edits>>
       ELSE /\ edits < MaxEdits
            /\ edits' = edits + 1
            /\ request' = [uri |-> uri,
                           content |-> [text |-> text, seq |-> edits + 1]]
            /\ mainPc' = "insLock"

\* the call of insertTextDocumentToDiagnostic up to its lock (187-198): an
\* empty URI returns at once.  At most MaxEdits edits are taken in a run.
AcceptEdit(uri, text) ==
    /\ mainPc = "read"
    /\ ~isExiting
    /\ IF uri = EmptyUri
       THEN UNCHANGED <<mainPc, request, edits>>
       ELSE /\ edits < MaxEdits
            /\ edits' = edits + 1
            /\ request' = [uri |-> uri,
                           content |-> [text |-> text, seq |-> edits + 1]]
            /\ mainPc' = "insLock"

\* case lsp.MethodDidOpen (141-150)
DidOpen(uri, text) ==
    /\ AcceptEdit(uri, text)
    /\ closed' = closed \ {uri}
    /\ UNCHANGED <<isExiting, rootPathNotification,
                   rootChan, textChangedNotification, textFromClient,
                   muTextFromClient, muStdout, consPc, cloneTextFromClient,
                   RawFiles, FileTypes, Diagnostics, opfChanged, ctxManifest,
                   filesToValidate, workers, results, result, batchNo,
                   sinceDrain, trace, posVars, locVars, opfVars, navVars,
                   lastEdit>>

\* case lsp.MethodDidChange (152-161); the URI is empty when the message
\* carries no content change
DidChange(uri, text) ==
    /\ AcceptEdit(uri, text)
    /\ closed' = closed \ {uri}
    /\ UNCHANGED <<isExiting, rootPathNotification,
                   rootChan, textChangedNotification, textFromClient,
                   muTextFromClient, muStdout, consPc, cloneTextFromClient,
                   RawFiles, FileTypes, Diagnostics, opfChanged, ctxManifest,
                   filesToValidate, workers, results, result, batchNo,
                   sinceDrain, trace, posVars, locVars, opfVars, navVars,
                   lastEdit>>

\* a mutation of DidClose: the store forgets the document
DidClosePurging(uri) ==
    /\ mainPc = "read"
    /\ ~isExiting
    /\ closed' = closed \union {uri}
    /\ RawFiles' = [u \in DOMAIN RawFiles \ {uri} |-> RawFiles[u]]
    /\ FileTypes' = [u \in DOMAIN FileTypes \ {uri} |-> FileTypes[u]]
    /\ Diagnostics' = [u \in DOMAIN Diagnostics \ {uri} |-> Diagnostics[u]]
    /\ mainPc' = "read"
    /\ UNCHANGED <<request, isExiting, rootPathNotification, rootChan,
                   textChangedNotification, textFromClient, muTextFromClient,
                   muStdout, consPc, cloneTextFromClient,
                   opfChanged, ctxManifest,
                   filesToValidate, workers, results, result, edits, batchNo,
                   sinceDrain, trace, posVars, locVars, opfVars, navVars,
                   lastEdit>>

\* case lsp.MethodDidClose (163-164): nothing to do, nothing to answer; the
\* document counts as closed
DidClose(uri) ==
    /\ mainPc = "read"
    /\ ~isExiting
    /\ closed' = closed \union {uri}
    /\ mainPc' = "read"
    /\ UNCHANGED <<request, isExiting, rootPathNotification, rootChan,
                   textChangedNotification, textFromClient, muTextFromClient,
                   muStdout, consPc, cloneTextFromClient, RawFiles,
                   FileTypes, Diagnostics, opfChanged, ctxManifest,
                   filesToValidate, workers, results, result, edits, batchNo,
                   sinceDrain, trace, posVars, locVars, opfVars, navVars,
                   lastEdit>>

\* default (166-167), an exit before any shutdown included
OtherMethod ==
    /\ mainPc = "read"
    /\ ~isExiting
    /\ mainPc' = "read"
    /\ UNCHANGED <<request, isExiting, rootPathNotification, rootChan,
                   textChangedNotification, textFromClient, muTextFromClient,
                   muStdout, consPc, cloneTextFromClient, RawFiles,
                   FileTypes, Diagnostics, opfChanged, ctxManifest,
                   filesToValidate, workers, results, result, edits, batchNo,
                   sinceDrain, trace, posVars, locVars, opfVars, navVars, closed,
                   lastEdit>>

\* a request other than exit after shutdown (105-117)
IllegalRequest ==
    /\ mainPc = "read"
    /\ isExiting
    /\ mainPc' = "respond"
    /\ UNCHANGED <<request, isExiting, rootPathNotification, rootChan,
                   textChangedNotification, textFromClient, muTextFromClient,
                   muStdout, consPc, cloneTextFromClient, RawFiles,
                   FileTypes, Diagnostics, opfChanged, ctxManifest,
                   filesToValidate, workers, results, result, edits, batchNo,
                   sinceDrain, trace, posVars, locVars, opfVars, navVars, closed,
                   lastEdit>>

\* exit after shutdown (105-108): main returns and the process ends
Exit ==
    /\ mainPc = "read"
    /\ isExiting
    /\ mainPc' = "done"
    /\ UNCHANGED <<request, isExiting, rootPathNotification, rootChan,
                   textChangedNotification, textFromClient, muTextFromClient,
                   muStdout, consPc, cloneTextFromClient, RawFiles,
                   FileTypes, Diagnostics, opfChanged, ctxManifest,
                   filesToValidate, workers, results, result, edits, batchNo,
                   sinceDrain, trace, posVars, locVars, opfVars, navVars, closed,
                   lastEdit>>

\* scanner.Scan() returns false (101): main returns and the process ends
EndOfInput ==
    /\ mainPc = "read"
    /\ mainPc' = "done"
    /\ UNCHANGED <<request, isExiting, rootPathNotification, rootChan,
                   textChangedNotification, textFromClient, muTextFromClient,
                   muStdout, consPc, cloneTextFromClient, RawFiles,
                   FileTypes, Diagnostics, opfChanged, ctxManifest,
                   filesToValidate, workers, results, result, edits, batchNo,
                   sinceDrain, trace, posVars, locVars, opfVars, navVars, closed,
                   lastEdit>>

\* a mutation of RespondLock: the response is written without the lock
RespondLockSkipped ==
    /\ mainPc = "respond"
    /\ mainPc' = "send"
    /\ UNCHANGED <<request, isExiting, rootPathNotification, rootChan,
                   textChangedNotification, textFromClient, muTextFromClient,
                   muStdout, consPc, cloneTextFromClient, RawFiles,
                   FileTypes, Diagnostics, opfChanged, ctxManifest,
                   filesToValidate, workers, results, result, edits, batchNo,
                   sinceDrain, trace, posVars, locVars, opfVars, navVars,
                   closed,
                   lastEdit>>

\* muStdout.Lock() before a response (113, 171)
RespondLock ==
    /\ mainPc = "respond"
    /\ muStdout = "free"
    /\ muStdout' = "main"
    /\ mainPc' = "send"
    /\ UNCHANGED <<request, isExiting, rootPathNotification, rootChan,
                   textChangedNotification, textFromClient, muTextFromClient,
                   consPc, cloneTextFromClient, RawFiles, FileTypes,
                   Diagnostics, opfChanged, ctxManifest, filesToValidate,
                   workers, results, result, edits, batchNo, sinceDrain,
                   trace, posVars, locVars, opfVars, navVars, closed,
                   lastEdit>>

\* lsp.SendToLspClient and muStdout.Unlock() (114-115, 172-173)
RespondSend ==
    /\ mainPc = "send"
    /\ muStdout' = "free"
    /\ mainPc' = "read"
    /\ UNCHANGED <<request, isExiting, rootPathNotification, rootChan,
                   textChangedNotification, textFromClient, muTextFromClient,
                   consPc, cloneTextFromClient, RawFiles, FileTypes,
                   Diagnostics, opfChanged, ctxManifest, filesToValidate,
                   workers, results, result, edits, batchNo, sinceDrain,
                   trace, posVars, locVars, opfVars, navVars, closed,
                   lastEdit>>

\* muTextFromClient.Lock() (198)
InsertLock ==
    /\ mainPc = "insLock"
    /\ muTextFromClient = "free"
    /\ muTextFromClient' = "main"
    /\ mainPc' = "insWrite"
    /\ UNCHANGED <<request, isExiting, rootPathNotification, rootChan,
                   textChangedNotification, textFromClient, muStdout, consPc,
                   cloneTextFromClient, RawFiles, FileTypes, Diagnostics,
                   opfChanged, ctxManifest, filesToValidate, workers,
                   results, result, edits, batchNo, sinceDrain, trace,
                   posVars, locVars, opfVars, navVars, closed,
                   lastEdit>>

\* a mutation of InsertWrite: an edit that comes before the root path is
\* known is dropped
InsertWriteAfterRoot ==
    /\ mainPc = "insWrite"
    /\ textFromClient' = IF rootPathNotification = "nil"
                         THEN Overwrite(textFromClient, request.uri, request.content)
                         ELSE textFromClient
    /\ sinceDrain' = Append(sinceDrain, request)
    /\ lastEdit' = Overwrite(lastEdit, request.uri, request.content)
    /\ mainPc' = "insPost"
    /\ UNCHANGED <<request, isExiting, rootPathNotification, rootChan,
                   textChangedNotification, muTextFromClient, muStdout,
                   consPc, cloneTextFromClient, RawFiles, FileTypes,
                   Diagnostics, opfChanged, ctxManifest, filesToValidate,
                   workers, results, result, edits, batchNo, trace, posVars,
                   locVars, opfVars, navVars, closed>>

\* a mutation of InsertWrite: the edit of a file the store holds is written
\* through to the store
InsertWriteThrough ==
    /\ mainPc = "insWrite"
    /\ textFromClient' = Overwrite(textFromClient, request.uri, request.content)
    /\ RawFiles' = IF request.uri \in DOMAIN RawFiles
                   THEN Overwrite(RawFiles, request.uri, request.content)
                   ELSE RawFiles
    /\ sinceDrain' = Append(sinceDrain, request)
    /\ lastEdit' = Overwrite(lastEdit, request.uri, request.content)
    /\ mainPc' = "insPost"
    /\ UNCHANGED <<request, isExiting, rootPathNotification, rootChan,
                   textChangedNotification, muTextFromClient, muStdout,
                   consPc, cloneTextFromClient, FileTypes,
                   Diagnostics, opfChanged, ctxManifest, filesToValidate,
                   workers, results, result, edits, batchNo, trace, posVars,
                   locVars, opfVars, navVars, closed>>

\* textFromClient[uri] = content (199)
InsertWrite ==
    /\ mainPc = "insWrite"
    /\ textFromClient' = Overwrite(textFromClient, request.uri, request.content)
    /\ sinceDrain' = Append(sinceDrain, request)
    /\ lastEdit' = Overwrite(lastEdit, request.uri, request.content)
    /\ mainPc' = "insPost"
    /\ UNCHANGED <<request, isExiting, rootPathNotification, rootChan,
                   textChangedNotification, muTextFromClient, muStdout,
                   consPc, cloneTextFromClient, RawFiles, FileTypes,
                   Diagnostics, opfChanged, ctxManifest, filesToValidate,
                   workers, results, result, edits, batchNo, trace, posVars,
                   locVars, opfVars, navVars, closed>>

\* the post of the signal (201-203); a send on a full channel would block
InsertPost ==
    /\ mainPc = "insPost"
    /\ PostIfEmpty(textChangedNotification) <= ChanCap
    /\ textChangedNotification' = PostIfEmpty(textChangedNotification)
    /\ mainPc' = "insUnlock"
    /\ UNCHANGED <<request, isExiting, rootPathNotification, rootChan,
                   textFromClient, muTextFromClient, muStdout, consPc,
                   cloneTextFromClient, RawFiles, FileTypes, Diagnostics,
                   opfChanged, ctxManifest, filesToValidate, workers,
                   results, result, edits, batchNo, sinceDrain, trace,
                   posVars, locVars, opfVars, navVars, closed,
                   lastEdit>>

\* muTextFromClient.Unlock() (205) and the return to the loop
InsertUnlock ==
    /\ mainPc = "insUnlock"
    /\ muTextFromClient' = "free"
    /\ request' = NoRequest
    /\ mainPc' = "read"
    /\ UNCHANGED <<isExiting, rootPathNotification, rootChan,
                   textChangedNotification, textFromClient, muStdout, consPc,
                   cloneTextFromClient, RawFiles, FileTypes, Diagnostics,
                   opfChanged, ctxManifest, filesToValidate, workers,
                   results, result, edits, batchNo, sinceDrain, trace,
                   posVars, locVars, opfVars, navVars, closed,
                   lastEdit>>

\* a mutation of WaitRoot: the consumer does not wait for the root path
WaitRootEarly ==
    /\ Running
    /\ consPc = "waitRoot"
    /\ rootChan' = IF rootChan > 0 THEN rootChan - 1 ELSE rootChan
    /\ consPc' = "waitSig"
    /\ UNCHANGED <<mainPc, request, isExiting, rootPathNotification,
                   textChangedNotification, textFromClient, muTextFromClient,
                   muStdout, cloneTextFromClient, RawFiles, FileTypes,
                   Diagnostics, opfChanged, ctxManifest, filesToValidate,
                   workers, results, result, edits, batchNo, sinceDrain,
                   trace, posVars, locVars, opfVars, navVars, closed,
                   lastEdit>>

\* rootPath, ok := <-rootPathNotification (227)
WaitRoot ==
    /\ Running
    /\ consPc = "waitRoot"
    /\ rootChan > 0
    /\ rootChan' = rootChan - 1
    /\ consPc' = "waitSig"
    /\ UNCHANGED <<mainPc, request, isExiting, rootPathNotification,
                   textChangedNotification, textFromClient, muTextFromClient,
                   muStdout, cloneTextFromClient, RawFiles, FileTypes,
                   Diagnostics, opfChanged, ctxManifest, filesToValidate,
                   workers, results, result, edits, batchNo, sinceDrain,
                   trace, posVars, locVars, opfVars, navVars, closed,
                   lastEdit>>

\* <-textChangedNotification (243)
WaitSignal ==
    /\ Running
    /\ consPc = "waitSig"
    /\ textChangedNotification > 0
    /\ textChangedNotification' = textChangedNotification - 1
    /\ consPc' = "checkLen"
    /\ UNCHANGED <<mainPc, request, isExiting, rootPathNotification,
                   rootChan, textFromClient, muTextFromClient, muStdout,
                   cloneTextFromClient, RawFiles, FileTypes, Diagnostics,
                   opfChanged, ctxManifest, filesToValidate, workers,
                   results, result, edits, batchNo, sinceDrain, trace,
                   posVars, locVars, opfVars, navVars, closed,
                   lastEdit>>

\* if len(textFromClient) == 0 { continue } (248-250), read without the lock.
\* A signal is only received after the write that posted it, and only the
\* consumer removes entries, so a read that races with a write of main sees
\* the map before or after that write
CheckLen ==
    /\ Running
    /\ consPc = "checkLen"
    /\ consPc' = IF DOMAIN textFromClient = {} THEN "waitSig" ELSE "lock"
    /\ UNCHANGED <<mainPc, request, isExiting, rootPathNotification,
                   rootChan, textChangedNotification, textFromClient,
                   muTextFromClient, muStdout, cloneTextFromClient, RawFiles,
                   FileTypes, Diagnostics, opfChanged, ctxManifest,
                   filesToValidate, workers, results, result, edits, batchNo,
                   sinceDrain, trace, posVars, locVars, opfVars, navVars, closed,
                   lastEdit>>

\* a mutation of DrainLock: the drain does not take the lock
DrainLockSkipped ==
    /\ Running
    /\ consPc = "lock"
    /\ consPc' = "copy"
    /\ UNCHANGED <<mainPc, request, isExiting, rootPathNotification,
                   rootChan, textChangedNotification, textFromClient,
                   muTextFromClient, muStdout, cloneTextFromClient, RawFiles,
                   FileTypes, Diagnostics, opfChanged, ctxManifest,
                   filesToValidate, workers, results, result, edits,
                   batchNo, sinceDrain, trace, posVars, locVars, opfVars,
                   navVars, closed,
                   lastEdit>>

\* muTextFromClient.Lock() (252)
DrainLock ==
    /\ Running
    /\ consPc = "lock"
    /\ muTextFromClient = "free"
    /\ muTextFromClient' = "consumer"
    /\ consPc' = "copy"
    /\ UNCHANGED <<mainPc, request, isExiting, rootPathNotification,
                   rootChan, textChangedNotification, textFromClient,
                   muStdout, cloneTextFromClient, RawFiles, FileTypes,
                   Diagnostics, opfChanged, ctxManifest, filesToValidate,
                   workers, results, result, edits, batchNo, sinceDrain,
                   trace, posVars, locVars, opfVars, navVars, closed,
                   lastEdit>>

\* a mutation of Copy: a document the store holds keeps the content the
\* store has
CopyNewOnly ==
    /\ Running
    /\ consPc = "copy"
    /\ cloneTextFromClient' = Targets(textFromClient)
    /\ RawFiles' = Merge(Targets(textFromClient), RawFiles)
    /\ consPc' = "clear"
    /\ UNCHANGED <<mainPc, request, isExiting, rootPathNotification,
                   rootChan, textChangedNotification, textFromClient,
                   muTextFromClient, muStdout, FileTypes, Diagnostics,
                   opfChanged, ctxManifest, filesToValidate, workers,
                   results, result, edits, batchNo, sinceDrain, trace,
                   posVars, locVars, opfVars, navVars, closed,
                   lastEdit>>

\* clear(cloneTextFromClient) and the copy of the entries with a target
\* extension into the store and into the batch (254-261)
Copy ==
    /\ Running
    /\ consPc = "copy"
    /\ cloneTextFromClient' = Targets(textFromClient)
    /\ RawFiles' = Merge(RawFiles, Targets(textFromClient))
    /\ consPc' = "clear"
    /\ UNCHANGED <<mainPc, request, isExiting, rootPathNotification,
                   rootChan, textChangedNotification, textFromClient,
                   muTextFromClient, muStdout, FileTypes, Diagnostics,
                   opfChanged, ctxManifest, filesToValidate, workers,
                   results, result, edits, batchNo, sinceDrain, trace,
                   posVars, locVars, opfVars, navVars, closed,
                   lastEdit>>

\* clear(textFromClient) (263)
Clear ==
    /\ Running
    /\ consPc = "clear"
    /\ textFromClient' = EmptyMap
    /\ consPc' = "drainSig"
    /\ UNCHANGED <<mainPc, request, isExiting, rootPathNotification,
                   rootChan, textChangedNotification, muTextFromClient,
                   muStdout, cloneTextFromClient, RawFiles, FileTypes,
                   Diagnostics, opfChanged, ctxManifest, filesToValidate,
                   workers, results, result, edits, batchNo, sinceDrain,
                   trace, posVars, locVars, opfVars, navVars, closed,
                   lastEdit>>

\* for range len(textChangedNotification) { <-textChangedNotification } (264-266)
DrainSignals ==
    /\ Running
    /\ consPc = "drainSig"
    /\ textChangedNotification' = 0
    /\ consPc' = "unlock"
    /\ UNCHANGED <<mainPc, request, isExiting, rootPathNotification,
                   rootChan, textFromClient, muTextFromClient, muStdout,
                   cloneTextFromClient, RawFiles, FileTypes, Diagnostics,
                   opfChanged, ctxManifest, filesToValidate, workers,
                   results, result, edits, batchNo, sinceDrain, trace,
                   posVars, locVars, opfVars, navVars, closed,
                   lastEdit>>

\* a mutation of DrainUnlock: the batch is not tested and goes on to the
\* validation, empty or not
DrainUnlockAlways ==
    /\ Running
    /\ consPc = "unlock"
    /\ muTextFromClient' = "free"
    /\ sinceDrain' = <<>>
    /\ consPc' = "detect"
    /\ batchNo' = batchNo + 1
    /\ UNCHANGED <<mainPc, request, isExiting, rootPathNotification,
                   rootChan, textChangedNotification, textFromClient,
                   muStdout, cloneTextFromClient, RawFiles, FileTypes,
                   Diagnostics, opfChanged, ctxManifest, filesToValidate,
                   workers, results, result, edits, trace, posVars, locVars,
                   opfVars, navVars, closed,
                   lastEdit>>

\* muTextFromClient.Unlock() (268) and the test of the batch (270-272):
\* an empty batch goes back to waiting
DrainUnlock ==
    /\ Running
    /\ consPc = "unlock"
    /\ muTextFromClient' = "free"
    /\ sinceDrain' = <<>>
    /\ IF DOMAIN cloneTextFromClient = {}
       THEN consPc' = "waitSig" /\ batchNo' = batchNo
       ELSE consPc' = "detect" /\ batchNo' = batchNo + 1
    /\ UNCHANGED <<mainPc, request, isExiting, rootPathNotification,
                   rootChan, textChangedNotification, textFromClient,
                   muStdout, cloneTextFromClient, RawFiles, FileTypes,
                   Diagnostics, opfChanged, ctxManifest, filesToValidate,
                   workers, results, result, edits, trace, posVars, locVars, opfVars, navVars, closed,
                   lastEdit>>

\* the kinds of the drained files (274-282)
Detect ==
    /\ Running
    /\ consPc = "detect"
    /\ FileTypes' = Merge(FileTypes,
                          [u \in DOMAIN cloneTextFromClient |->
                              DetectFileType(u, cloneTextFromClient[u])])
    /\ opfChanged' = \E u \in DOMAIN cloneTextFromClient :
                         DetectFileType(u, cloneTextFromClient[u]) = "OPF"
    /\ consPc' = "snapshot"
    /\ UNCHANGED <<mainPc, request, isExiting, rootPathNotification,
                   rootChan, textChangedNotification, textFromClient,
                   muTextFromClient, muStdout, cloneTextFromClient, RawFiles,
                   Diagnostics, ctxManifest, filesToValidate, workers,
                   results, result, edits, batchNo, sinceDrain, trace,
                   posVars, locVars, opfVars, navVars, closed,
                   lastEdit>>

\* a mutation of Snapshot: the manifest is parsed only in a batch that holds
\* a package document
SnapshotOnChange ==
    /\ Running
    /\ consPc = "snapshot"
    /\ IF ManifestSources = {} \/ ~opfChanged
       THEN ctxManifest' = Nil
       ELSE \E u \in ManifestSources : ctxManifest' = ParseManifest(RawFiles[u])
    /\ consPc' = "select"
    /\ UNCHANGED <<mainPc, request, isExiting, rootPathNotification,
                   rootChan, textChangedNotification, textFromClient,
                   muTextFromClient, muStdout, cloneTextFromClient, RawFiles,
                   FileTypes, Diagnostics, opfChanged, filesToValidate,
                   workers, results, result, edits, batchNo, sinceDrain,
                   trace, posVars, locVars, opfVars, navVars, closed,
                   lastEdit>>

\* the context of the batch (285-298): the manifest of the first package
\* document, in the iteration order of the map, that ParseManifest accepts
Snapshot ==
    /\ Running
    /\ consPc = "snapshot"
    /\ IF ManifestSources = {}
       THEN ctxManifest' = Nil
       ELSE \E u \in ManifestSources : ctxManifest' = ParseManifest(RawFiles[u])
    /\ consPc' = "select"
    /\ UNCHANGED <<mainPc, request, isExiting, rootPathNotification,
                   rootChan, textChangedNotification, textFromClient,
                   muTextFromClient, muStdout, cloneTextFromClient, RawFiles,
                   FileTypes, Diagnostics, opfChanged, filesToValidate,
                   workers, results, result, edits, batchNo, sinceDrain,
                   trace, posVars, locVars, opfVars, navVars, closed,
                   lastEdit>>

\* filesToValidate (301-304) and the kinds still unknown (307-311)
Select ==
    /\ Running
    /\ consPc = "select"
    /\ filesToValidate' = FilesToValidate(opfChanged, RawFiles, cloneTextFromClient)
    /\ FileTypes' = Merge(FileTypes,
                          [u \in {x \in DOMAIN filesToValidate' :
                                      FileTypes[x] = "Unknown"} |->
                              DetectFileType(u, filesToValidate'[u])])
    /\ consPc' = "spawn"
    /\ UNCHANGED <<mainPc, request, isExiting, rootPathNotification,
                   rootChan, textChangedNotification, textFromClient,
                   muTextFromClient, muStdout, cloneTextFromClient, RawFiles,
                   Diagnostics, opfChanged, ctxManifest, workers, results,
                   result, edits, batchNo, sinceDrain, trace, posVars,
                   locVars, opfVars, navVars, closed,
                   lastEdit>>

\* the results channel and one worker for each file (313-331)
Spawn ==
    /\ Running
    /\ consPc = "spawn"
    /\ results' = <<>>
    /\ workers' = [u \in DOMAIN filesToValidate |-> "running"]
    /\ consPc' = "collect"
    /\ UNCHANGED <<mainPc, request, isExiting, rootPathNotification,
                   rootChan, textChangedNotification, textFromClient,
                   muTextFromClient, muStdout, cloneTextFromClient, RawFiles,
                   FileTypes, Diagnostics, opfChanged, ctxManifest,
                   filesToValidate, result, edits, batchNo, sinceDrain,
                   trace, posVars, locVars, opfVars, navVars, closed,
                   lastEdit>>

\* a worker (322-325): it validates its file against the context and sends
\* the result; the channel has room for every result
Work(u) ==
    /\ Running
    /\ u \in DOMAIN workers
    /\ workers[u] = "running"
    /\ results' = Append(results,
                         [uri |-> u,
                          diags |-> ValidateFile(u, filesToValidate[u],
                                                 FileTypes[u], Ctx),
                          of |-> filesToValidate[u]])
    /\ workers' = [workers EXCEPT ![u] = "done"]
    /\ UNCHANGED <<mainPc, request, isExiting, rootPathNotification,
                   rootChan, textChangedNotification, textFromClient,
                   muTextFromClient, muStdout, consPc, cloneTextFromClient,
                   RawFiles, FileTypes, Diagnostics, opfChanged, ctxManifest,
                   filesToValidate, result, edits, batchNo, sinceDrain,
                   trace, posVars, locVars, opfVars, navVars, closed,
                   lastEdit>>

\* what the store and the client are told of a file: the batch, the content
\* validated, the content the store holds and the diagnostics
Event(kind, res) ==
    [kind |-> kind, batch |-> batchNo, of |-> res.of,
     latest |-> RawFiles[res.uri], diags |-> res.diags]

\* a mutation of Collect: no result is taken before every worker is done
CollectAfterAll ==
    /\ Running
    /\ consPc = "collect"
    /\ results # <<>>
    /\ \A u \in DOMAIN workers : workers[u] = "done"
    /\ result' = Head(results)
    /\ results' = Tail(results)
    /\ Diagnostics' = Overwrite(Diagnostics, Head(results).uri, Head(results).diags)
    /\ trace' = [trace EXCEPT ![Head(results).uri] =
                    Append(@, Event("store", Head(results)))]
    /\ consPc' = "publish"
    /\ UNCHANGED <<mainPc, request, isExiting, rootPathNotification, rootChan,
                   textChangedNotification, textFromClient, muTextFromClient,
                   muStdout, cloneTextFromClient, RawFiles, FileTypes,
                   opfChanged, ctxManifest, filesToValidate, workers, edits,
                   batchNo, sinceDrain, posVars, locVars, opfVars, navVars, closed,
                   lastEdit>>

\* for r := range results: the next result is received and stored (333-334)
Collect ==
    /\ Running
    /\ consPc = "collect"
    /\ results # <<>>
    /\ result' = Head(results)
    /\ results' = Tail(results)
    /\ Diagnostics' = Overwrite(Diagnostics, Head(results).uri, Head(results).diags)
    /\ trace' = [trace EXCEPT ![Head(results).uri] =
                    Append(@, Event("store", Head(results)))]
    /\ consPc' = "publish"
    /\ UNCHANGED <<mainPc, request, isExiting, rootPathNotification,
                   rootChan, textChangedNotification, textFromClient,
                   muTextFromClient, muStdout, cloneTextFromClient, RawFiles,
                   FileTypes, opfChanged, ctxManifest, filesToValidate,
                   workers, edits, batchNo, sinceDrain, posVars, locVars, opfVars, navVars, closed,
                   lastEdit>>

\* publishDiagnostics up to muStdout.Lock() (341-378)
PublishLock ==
    /\ Running
    /\ consPc = "publish"
    /\ muStdout = "free"
    /\ muStdout' = "consumer"
    /\ consPc' = "pubSend"
    /\ UNCHANGED <<mainPc, request, isExiting, rootPathNotification,
                   rootChan, textChangedNotification, textFromClient,
                   muTextFromClient, cloneTextFromClient, RawFiles,
                   FileTypes, Diagnostics, opfChanged, ctxManifest,
                   filesToValidate, workers, results, result, edits, batchNo,
                   sinceDrain, trace, posVars, locVars, opfVars, navVars, closed,
                   lastEdit>>

\* a mutation of PublishSend: an empty list is not sent
PublishSendNonEmpty ==
    /\ Running
    /\ consPc = "pubSend"
    /\ muStdout' = "free"
    /\ trace' = IF result.diags = <<>> THEN trace
                ELSE [trace EXCEPT ![result.uri] = Append(@, Event("publish", result))]
    /\ consPc' = "collect"
    /\ UNCHANGED <<mainPc, request, isExiting, rootPathNotification, rootChan,
                   textChangedNotification, textFromClient, muTextFromClient,
                   cloneTextFromClient, RawFiles, FileTypes, Diagnostics,
                   opfChanged, ctxManifest, filesToValidate, workers, results,
                   result, edits, batchNo, sinceDrain, posVars, locVars, opfVars, navVars, closed,
                   lastEdit>>

\* lsp.SendToLspClient and muStdout.Unlock() (379-380)
PublishSend ==
    /\ Running
    /\ consPc = "pubSend"
    /\ muStdout' = "free"
    /\ trace' = [trace EXCEPT ![result.uri] = Append(@, Event("publish", result))]
    /\ consPc' = "collect"
    /\ UNCHANGED <<mainPc, request, isExiting, rootPathNotification,
                   rootChan, textChangedNotification, textFromClient,
                   muTextFromClient, cloneTextFromClient, RawFiles,
                   FileTypes, Diagnostics, opfChanged, ctxManifest,
                   filesToValidate, workers, results, result, edits, batchNo,
                   sinceDrain, posVars, locVars, opfVars, navVars, closed,
                   lastEdit>>

\* a mutation of EndBatch: the loop goes on when the channel is empty,
\* without waiting for the workers that still run
EndBatchEarly ==
    /\ Running
    /\ consPc = "collect"
    /\ results = <<>>
    /\ opfChanged' = FALSE
    /\ workers' = [u \in {x \in DOMAIN workers : workers[x] = "running"} |->
                       "running"]
    /\ result' = NoResult
    /\ consPc' = "waitSig"
    /\ UNCHANGED <<mainPc, request, isExiting, rootPathNotification,
                   rootChan, textChangedNotification, textFromClient,
                   muTextFromClient, muStdout, cloneTextFromClient, RawFiles,
                   FileTypes, Diagnostics, ctxManifest, filesToValidate,
                   results, edits, batchNo, sinceDrain, trace, posVars,
                   locVars, opfVars, navVars, closed,
                   lastEdit>>

\* wg.Wait() and close(results) (328-331) end the range over results (333):
\* the locals of the iteration are gone and the loop waits again (243)
EndBatch ==
    /\ Running
    /\ consPc = "collect"
    /\ BatchComplete
    /\ opfChanged' = FALSE
    /\ ctxManifest' = Nil
    /\ filesToValidate' = EmptyMap
    /\ workers' = EmptyMap
    /\ result' = NoResult
    /\ consPc' = "waitSig"
    /\ UNCHANGED <<mainPc, request, isExiting, rootPathNotification,
                   rootChan, textChangedNotification, textFromClient,
                   muTextFromClient, muStdout, cloneTextFromClient, RawFiles,
                   FileTypes, Diagnostics, results, edits, batchNo,
                   sinceDrain, trace, posVars, locVars, opfVars, navVars, closed,
                   lastEdit>>

MainNext ==
    \/ Initialize
    \/ Initialized
    \/ Shutdown
    \/ \E uri \in Uris : \E text \in TextsOf(uri) : DidOpen(uri, text)
    \/ \E uri \in Uris : \E text \in TextsOf(uri) : DidChange(uri, text)
    \/ \E uri \in CloseUris \cap DOMAIN RawFiles : DidClose(uri)
    \/ OtherMethod
    \/ IllegalRequest
    \/ Exit
    \/ EndOfInput

\* the steps of main inside a handler
MainStep ==
    \/ RespondLock
    \/ RespondSend
    \/ InsertLock
    \/ InsertWrite
    \/ InsertPost
    \/ InsertUnlock

ConsumerNext ==
    \/ WaitRoot
    \/ WaitSignal
    \/ CheckLen
    \/ DrainLock
    \/ Copy
    \/ Clear
    \/ DrainSignals
    \/ DrainUnlock
    \/ Detect
    \/ Snapshot
    \/ Select
    \/ Spawn
    \/ Collect
    \/ PublishLock
    \/ PublishSend
    \/ EndBatch

WorkerNext == \E u \in Uris : Work(u)

Next == MainNext \/ MainStep \/ ConsumerNext \/ WorkerNext

Spec == Init /\ [][Next]_vars

\* The scheduler lets every goroutine that can run take its next step, and a
\* goroutine that waits for a mutex gets it in the end, however often others
\* take it (sync.Mutex hands the lock to a waiter that has waited too long).
\* The client is free to send nothing more.
Fairness ==
    /\ WF_vars(MainStep)
    /\ WF_vars(ConsumerNext)
    /\ SF_vars(DrainLock)
    /\ SF_vars(PublishLock)
    /\ \A u \in Uris : WF_vars(Work(u))

FairSpec == Spec /\ Fairness

(***************************************************************************)
(* SpecBatch: one batch of the consumer taken alone, from the end of its   *)
(* drain (268) to the end of the range over its results (336), with two    *)
(* package documents.  The store holds what a first batch has drained,     *)
(* validated and published (any files of BatchUris, or none), and the      *)
(* drain has taken any files of BatchUris.                                 *)
(***************************************************************************)
\* the files of a drain: any of BatchUris, each with one of its texts, sent
\* in the order of Rank after `base` earlier edits
DrainsAfter(base) ==
    UNION {{[u \in S |-> [text |-> f[u], seq |-> base + Rank(u)]] :
               f \in {g \in [S -> {"ok", "okx", "bad", "img", "toc", "tocbad"}] :
                         \A u \in S : g[u] \in BatchTextsOf(u)}} :
           S \in SUBSET BatchUris}

KindsOf(files) == [u \in DOMAIN files |-> DetectFileType(u, files[u])]

\* the manifests the context of a batch over these files may have
ManifestsOf(files) ==
    IF \A u \in DOMAIN files :
           DetectFileType(u, files[u]) = "OPF" => ParseManifest(files[u]) = Nil
    THEN {Nil}
    ELSE {ParseManifest(files[u]) :
              u \in {x \in DOMAIN files :
                        /\ DetectFileType(x, files[x]) = "OPF"
                        /\ ParseManifest(files[x]) # Nil}}

\* what the first batch has stored for its files, validated on manifest m
FirstDiagnostics(files, m) ==
    [u \in DOMAIN files |->
        ValidateFile(u, files[u], DetectFileType(u, files[u]),
                     [Files |-> files, FileTypes |-> KindsOf(files),
                      Manifest |-> m])]

\* and the history of it
FirstTrace(files, m) ==
    [u \in Uris \union BatchUris |->
        IF u \in DOMAIN files
        THEN <<[kind |-> "store", batch |-> 1, of |-> files[u],
                latest |-> files[u], diags |-> FirstDiagnostics(files, m)[u]],
               [kind |-> "publish", batch |-> 1, of |-> files[u],
                latest |-> files[u], diags |-> FirstDiagnostics(files, m)[u]]>>
        ELSE <<>>]

BatchInit ==
    \E old \in DrainsAfter(0) :
    \E new \in DrainsAfter(Cardinality(BatchUris)) \ {EmptyMap} :
    \E m \in ManifestsOf(old) :
        /\ mainPc = "read"
        /\ request = NoRequest
        /\ isExiting = FALSE
        /\ rootPathNotification = "nil"
        /\ rootChan = 0
        /\ textChangedNotification = 0
        /\ textFromClient = EmptyMap
        /\ muTextFromClient = "free"
        /\ muStdout = "free"
        /\ consPc = "detect"
        /\ cloneTextFromClient = new
        /\ RawFiles = Merge(old, new)
        /\ FileTypes = KindsOf(old)
        /\ Diagnostics = FirstDiagnostics(old, m)
        /\ opfChanged = FALSE
        /\ ctxManifest = Nil
        /\ filesToValidate = EmptyMap
        /\ workers = EmptyMap
        /\ results = <<>>
        /\ result = NoResult
        /\ edits = 2 * Cardinality(BatchUris)
        /\ batchNo = IF old = EmptyMap THEN 1 ELSE 2
        /\ sinceDrain = <<>>
        /\ trace = FirstTrace(old, m)
        /\ closed = {}
        /\ lastEdit = Merge(old, new)
        /\ PosIdle
        /\ LocIdle
        /\ OpfIdle
        /\ NavIdle

BatchNext ==
    \/ Detect
    \/ Snapshot
    \/ Select
    \/ Spawn
    \/ \E u \in BatchUris : Work(u)
    \/ Collect
    \/ PublishLock
    \/ PublishSend
    \/ EndBatch

SpecBatch == BatchInit /\ [][BatchNext]_vars

(***************************************************************************)
(* What a document contains, stated without the scan: its lines are the    *)
(* maximal runs between '\n' bytes.                                        *)
(***************************************************************************)
\* the offsets of the line breaks of the content
Breaks(content) == {i \in 0 .. (Len(content) - 1) : content[i + 1] = "\n"}

LastLine(content) == Cardinality(Breaks(content))

\* the offset of the first byte of line l (l <= LastLine)
LineStart(content, l) ==
    IF l = 0 THEN 0
    ELSE 1 + CHOOSE b \in Breaks(content) :
                 Cardinality({x \in Breaks(content) : x < b}) = l - 1

\* the number of bytes of line l, its line break excluded
LineLength(content, l) ==
    LET s == LineStart(content, l)
        after == {b \in Breaks(content) : b >= s}
        e == IF after = {} THEN Len(content)
             ELSE CHOOSE b \in after : \A x \in after : b <= x
    IN  e - s

Contains(content, pos) ==
    /\ pos.Line >= 0
    /\ pos.Line <= LastLine(content)
    /\ pos.Character >= 0
    /\ pos.Character <= LineLength(content, pos.Line)

(***************************************************************************)
(* C7: for every document D and every offset o with 0 <= o <= len(D), the  *)
(* round trip PositionToByteOffset(D, ByteOffsetToPosition(D, o)) gives o  *)
(* back, the end of the document and the offsets around a line break       *)
(* included.                                                               *)
(***************************************************************************)
C7_RoundTrip ==
    (pop = "round" /\ poff >= 0 /\ poff <= Len(pdoc)) => pres = poff

\* a round trip was made from the end of a document that ends in a line break
C7_Witness ==
    /\ pop = "round"
    /\ Len(pdoc) >= 2
    /\ poff = Len(pdoc)
    /\ pdoc[Len(pdoc)] = "\n"
    /\ pres = poff

(***************************************************************************)
(* C8: PositionToByteOffset answers -1 for every position the document     *)
(* does not contain (a line after the last one, a character count greater  *)
(* than the length of the line) and an offset in 0 .. len(content) for     *)
(* every position it contains; it has a value for every input.             *)
(***************************************************************************)
C8_Sentinel ==
    pop = "toOff" =>
        IF Contains(pdoc, ppos)
        THEN pres >= 0 /\ pres <= Len(pdoc)
        ELSE pres = -1

\* a position one past the end of the first line of a two-line document
C8_Witness ==
    /\ pop = "toOff"
    /\ LastLine(pdoc) >= 1
    /\ ppos.Line = 0
    /\ ppos.Character = LineLength(pdoc, 0) + 1
    /\ pres = -1

(***************************************************************************)
(* Where the elements and attributes of the parsed document really stand.  *)
(***************************************************************************)
LocNodes == 1 .. Len(ltree)

InStartTag(n, o) == ltree[n].Offset <= o /\ o <= ltree[n].Src.TagEnd

\* o lies between the start tag and the end tag of n and in no child of n
InOwnText(n, o) ==
    /\ ltree[n].Src.TagEnd < o
    /\ o < ltree[n].Src.CloseAt
    /\ \A c \in LocNodes :
          ltree[c].Parent = n => ~(ltree[c].Offset <= o /\ o <= ltree[c].Src.End)

OutOfRange(o) == o < 0 \/ o >= Len(ldoc)

NoPrefixedElement == \A n \in LocNodes : ltree[n].Src.Prefix = <<>>

\* the first "</local" after the start tag of n is the end tag of n
OwnEndTagFirst(n) ==
    \/ ltree[n].Src.CloseAt = ltree[n].Src.TagEnd
    \/ IndexFrom(ldoc, ltree[n].Src.TagEnd, <<"<", "/">> \o ltree[n].Local)
           = ltree[n].Src.CloseAt

(***************************************************************************)
(* C9 as claimed: in a well-formed document, an offset anywhere in an      *)
(* element's start tag, or in its text content outside any child element,  *)
(* resolves to that element; a negative offset or one past the end         *)
(* resolves to nil.                                                        *)
(***************************************************************************)
C9_Containment ==
    lop = "locate" =>
        /\ OutOfRange(loff) => lres = NilResult
        /\ \A n \in LocNodes :
              (InStartTag(n, loff) \/ InOwnText(n, loff)) => lres.Node = n

(***************************************************************************)
(* C9 amended: the same, for documents whose element names carry no        *)
(* prefix and for an element whose own end tag is the first "</local"      *)
(* after its start tag (no descendant's name begins with its local name).  *)
(***************************************************************************)
C9_ContainmentAmended ==
    lop = "locate" =>
        /\ OutOfRange(loff) => lres = NilResult
        /\ NoPrefixedElement =>
              \A n \in LocNodes :
                  (OwnEndTagFirst(n) /\ (InStartTag(n, loff) \/ InOwnText(n, loff)))
                      => lres.Node = n

\* the text of a child element, two levels down, resolved to that child
C9_Witness ==
    /\ lop = "locate"
    /\ NoPrefixedElement
    /\ \E n \in LocNodes :
          /\ ltree[n].Parent # 0
          /\ OwnEndTagFirst(n)
          /\ InOwnText(n, loff)
          /\ lres.Node = n

(***************************************************************************)
(* C10 as claimed: in a start tag whose prefixed attributes have their     *)
(* prefix declared in the tag, an offset on an attribute that shares its   *)
(* local name with another attribute of the tag resolves to that           *)
(* attribute: a prefixed one, and an unprefixed one that follows a         *)
(* prefixed one with the same local name and value.                        *)
(***************************************************************************)
\* the prefixes of the attributes of n are all declared in the tag of n
PrefixesDeclaredInTag(n) ==
    \A k \in 1 .. Len(ltree[n].Src.Attrs) :
        LET a == ltree[n].Src.Attrs[k]
        IN  (a.Space # <<>> /\ a.Space # XmlnsPrefix) =>
                \E d \in 1 .. Len(ltree[n].Src.Attrs) :
                    /\ ltree[n].Src.Attrs[d].Space = XmlnsPrefix
                    /\ ltree[n].Src.Attrs[d].Local = a.Space

\* attribute k of n shares its local name with another attribute of n
SharesLocalName(n, k) ==
    \E j \in 1 .. Len(ltree[n].Attrs) :
        /\ j # k
        /\ ltree[n].Attrs[j].Local = ltree[n].Attrs[k].Local
        /\ ltree[n].Attrs[j].Space # ltree[n].Attrs[k].Space

\* o lies on attribute k of n: from its name to its closing quote
OnAttribute(n, k, o) ==
    ltree[n].Src.Attrs[k].NameAt <= o /\ o <= ltree[n].Src.Attrs[k].ValEnd

C10_AttributeDisambiguation ==
    lop = "locate" =>
        \A n \in LocNodes :
            PrefixesDeclaredInTag(n) =>
                \A k \in 1 .. Len(ltree[n].Attrs) :
                    (SharesLocalName(n, k) /\ OnAttribute(n, k, loff))
                        => (lres.Node = n /\ lres.Attr = k)

(***************************************************************************)
(* What the history says of the server.                                    *)
(***************************************************************************)
\* initialize has handed the root path over
RootKnown == rootPathNotification = "nil"

\* the pending map holds the content of edit s for a URI with a target
\* extension
InMap(s) ==
    \E u \in DOMAIN textFromClient :
        hasTargetExtension(u) /\ textFromClient[u].seq = s

\* edit s, to a URI with a target extension, has been passed to
\* insertTextDocumentToDiagnostic and no drain has taken it yet
Passed(s) ==
    \/ InMap(s)
    \/ /\ mainPc \in {"insLock", "insWrite"}
       /\ request.content.seq = s
       /\ hasTargetExtension(request.uri)

\* the batch holds the content of edit s
InBatch(s) ==
    \E u \in DOMAIN cloneTextFromClient : cloneTextFromClient[u].seq = s

\* a later edit to the same URI was written before the drain
Replaced(s) ==
    \E i, j \in DOMAIN sinceDrain :
        /\ i < j
        /\ sinceDrain[i].content.seq = s
        /\ sinceDrain[j].uri = sinceDrain[i].uri

\* the consumer waits for a signal and edits are pending, main being outside
\* the critical section that writes an edit and posts its signal: then a
\* signal is there
SignalPresent ==
    (consPc = "waitSig" /\ DOMAIN textFromClient # {} /\ muTextFromClient # "main")
        => textChangedNotification > 0

\* the URIs edited since the last drain that have a target extension
EditedTargets ==
    {u \in {sinceDrain[i].uri : i \in DOMAIN sinceDrain} : hasTargetExtension(u)}

\* the content of the last edit to u since the last drain
LatestOf(u) ==
    sinceDrain[CHOOSE i \in DOMAIN sinceDrain :
                   /\ sinceDrain[i].uri = u
                   /\ \A j \in DOMAIN sinceDrain :
                          sinceDrain[j].uri = u => j <= i].content

\* the batch has at least one package document
OpfDrained ==
    \E u \in DOMAIN cloneTextFromClient :
        DetectFileType(u, cloneTextFromClient[u]) = "OPF"

\* the files a batch is to validate
Expected ==
    IF OpfDrained THEN DOMAIN RawFiles ELSE DOMAIN cloneTextFromClient

\* the consumer is between the choice of the files and the end of the batch
InValidation == consPc \in {"spawn", "collect", "publish", "pubSend"}

\* the batch is over: the range over results is about to end
BatchOver == consPc = "collect" /\ BatchComplete

\* the events of a kind recorded for u in the current batch
EventsIn(u, kind) ==
    {i \in DOMAIN trace[u] :
        trace[u][i].kind = kind /\ trace[u][i].batch = batchNo}

PublishedInBatch == {u \in Uris : EventsIn(u, "publish") # {}}

IsPublish(e) == e.kind = "publish"

IsStore(e) == e.kind = "store"

Published(u) == SelectSeq(trace[u], IsPublish)

Stored(u) == SelectSeq(trace[u], IsStore)

\* later events come from later batches and from contents no older
Ordered(es) ==
    \A i, j \in DOMAIN es :
        i < j => es[i].batch < es[j].batch /\ es[i].of.seq <= es[j].of.seq

C2_DebounceCollapse ==
    consPc = "unlock" =>
        /\ Len(sinceDrain) >= 1
        /\ DOMAIN cloneTextFromClient = EditedTargets
        /\ \A u \in DOMAIN cloneTextFromClient :
               cloneTextFromClient[u] = LatestOf(u)
        /\ textFromClient = EmptyMap
        /\ textChangedNotification = 0

\* three edits in one drain: two to the same URI with different texts and
\* one to another URI
C2_Witness ==
    /\ consPc = "unlock"
    /\ Len(sinceDrain) = 3
    /\ sinceDrain[1].uri = sinceDrain[3].uri
    /\ sinceDrain[1].content.text # sinceDrain[3].content.text
    /\ sinceDrain[2].uri # sinceDrain[1].uri
    /\ Cardinality(DOMAIN cloneTextFromClient) = 2

(***************************************************************************)
(* C3: manifest widening.  A batch that holds a package document validates *)
(* and publishes every file of the store; a batch that holds none          *)
(* validates and publishes exactly the drained files.                      *)
(***************************************************************************)
C3_ManifestWidening ==
    InValidation =>
        /\ DOMAIN filesToValidate = Expected
        /\ consPc # "spawn" => DOMAIN workers = Expected
        /\ PublishedInBatch \subseteq Expected
        /\ BatchOver => PublishedInBatch = Expected

\* a batch that drained a package document only has published a content
\* document of the store too
C3_Witness ==
    /\ BatchOver
    /\ OpfDrained
    /\ DOMAIN cloneTextFromClient # DOMAIN RawFiles
    /\ PublishedInBatch = DOMAIN RawFiles

(***************************************************************************)
(* C4: per-file publication independence.  While a batch is validated, a   *)
(* result that a worker has sent can be received, stored and published at  *)
(* once, whether or not the other workers have finished, and what is       *)
(* stored and published for a file is the outcome of validating that file. *)
(***************************************************************************)
C4_Independence ==
    /\ (Running /\ consPc = "collect" /\ results # <<>>) => ENABLED Collect
    /\ InValidation =>
           \A u \in Uris : \A i \in EventsIn(u, "store") \cup EventsIn(u, "publish") :
               trace[u][i].diags =
                   ValidateFile(u, filesToValidate[u], FileTypes[u], Ctx)

\* the notification of one file is out while the worker of another file of
\* the batch is still running
C4_Witness ==
    /\ InValidation
    /\ \E a, b \in DOMAIN workers :
           /\ a # b
           /\ workers[b] = "running"
           /\ EventsIn(a, "publish") # {}

(***************************************************************************)
(* C5: same-URI ordering.  For each URI the notifications published, and   *)
(* the writes to its Diagnostics entry, follow the order of the batches;   *)
(* each is computed from the content the store held for the URI in its     *)
(* batch, so never from a content older than that of an earlier one; and a *)
(* notification computed from a malformed text is non-empty while the next *)
(* one, computed from the text that fixes it, is empty.                    *)
(***************************************************************************)
C5_SameUriOrdering ==
    \A u \in Uris :
        /\ Ordered(Published(u))
        /\ Ordered(Stored(u))
        /\ \A i \in DOMAIN trace[u] : trace[u][i].of = trace[u][i].latest
        /\ \A i \in 1 .. Len(Published(u)) - 1 :
               (Published(u)[i].of.text = "bad" /\ Published(u)[i + 1].of.text = "ok")
                   => Published(u)[i].diags # <<>> /\ Published(u)[i + 1].diags = <<>>

\* edit 1 (malformed) and edit 2 (its fix) to one URI went through two
\* successive batches: two notifications, the first non-empty, the second
\* empty
C5_Witness ==
    \E u \in Uris :
        /\ Len(Published(u)) = 2
        /\ Published(u)[1].of = [text |-> "bad", seq |-> 1]
        /\ Published(u)[2].of = [text |-> "ok", seq |-> 2]
        /\ Published(u)[1].batch = 1
        /\ Published(u)[2].batch = 2
        /\ Published(u)[1].diags # <<>>
        /\ Published(u)[2].diags = <<>>

(***************************************************************************)
(* C6: every file of a batch gets exactly one worker, one write to its     *)
(* Diagnostics entry and one notification in the batch, and no other file  *)
(* gets any; the notification is sent when the list is empty too.          *)
(***************************************************************************)
C6_ExactlyOnce ==
    /\ DOMAIN workers =
           IF consPc \in {"collect", "publish", "pubSend"}
           THEN DOMAIN filesToValidate ELSE {}
    /\ InValidation =>
           \A u \in Uris :
               /\ Cardinality(EventsIn(u, "store")) <= 1
               /\ Cardinality(EventsIn(u, "publish")) <= 1
               /\ u \notin DOMAIN filesToValidate =>
                      EventsIn(u, "store") \cup EventsIn(u, "publish") = {}
    /\ BatchOver =>
           \A u \in DOMAIN filesToValidate :
               /\ Cardinality(EventsIn(u, "store")) = 1
               /\ Cardinality(EventsIn(u, "publish")) = 1
               /\ \A i \in EventsIn(u, "publish") :
                      trace[u][i].diags = Diagnostics[u]

\* a batch of two files is over and one of them was published with an empty
\* list
C6_Witness ==
    /\ BatchOver
    /\ Cardinality(DOMAIN filesToValidate) = 2
    /\ \E u \in DOMAIN filesToValidate :
           \E i \in EventsIn(u, "publish") : trace[u][i].diags = <<>>


(***************************************************************************)
(* C11.  What a declaration says of the processing order, stated without   *)
(* the parser: the itemref children of the spine, as declared.             *)
(***************************************************************************)
DeclaredEntry(kid) ==
    CASE kid = "A" -> <<[IDRef |-> <<"A">>, Linear |-> TRUE]>>
      [] kid = "B" -> <<[IDRef |-> <<"B">>, Linear |-> TRUE]>>
      [] kid = "Bno" -> <<[IDRef |-> <<"B">>, Linear |-> FALSE]>>
      [] OTHER -> <<>>

DeclaredSpine(decl) ==
    IF decl.spine
    THEN Concat([k \in 1 .. Len(decl.kids) |-> DeclaredEntry(decl.kids[k])])
    ELSE <<>>

\* the href of the manifest item a spine entry names
DeclaredHref(entry) == IF entry.IDRef = <<"A">> THEN <<"a">> ELSE <<"b">>

DeclaredHrefs(decl) ==
    [k \in 1 .. Len(DeclaredSpine(decl)) |-> DeclaredHref(DeclaredSpine(decl)[k])]

\* C11: the Spine of the Manifest Info ParseManifest builds from a package
\* document is the sequence of the itemref children of its spine in the
\* order the document declares them, whatever the order of the ids and of
\* the manifest items; an itemref that is no child of the spine is no entry.
\* The order a cross-file validator derives from the snapshot is that order.
C11_ManifestOrder ==
    (oop # "none" /\ odecl.closed) =>
        /\ ~oinfo.nil
        /\ oinfo.Spine = DeclaredSpine(odecl)
        /\ oop = "read" => oorder = DeclaredHrefs(odecl)

\* a package document declaring [B, A], its items listed as A, B: the
\* validator has read [b, a]
C11_Witness ==
    /\ oop = "read"
    /\ odecl.items = <<"A", "B">>
    /\ odecl.kids = <<"B", "A">>
    /\ oinfo.Spine = <<[IDRef |-> <<"B">>, Linear |-> TRUE],
                       [IDRef |-> <<"A">>, Linear |-> TRUE]>>
    /\ oorder = <<(<<"b">>), (<<"a">>)>>


(***************************************************************************)
(* C12.  The cases in which a query finds nothing to answer on.            *)
(***************************************************************************)
NavContent == nws.files[nreq.uri]

NavOffset == PositionToByteOffset(NavContent, nreq.pos)

\* the request names no stored content, or a position that is not in the
\* content, or a document that does not parse, or an offset in no element
NothingToAnswerOn ==
    \/ ~nreq.valid
    \/ nreq.uri \notin DOMAIN nws.files
    \/ NavOffset = -1
    \/ Parse(NavContent).diags > 0
    \/ LocateAtPosition(Parse(NavContent).nodes, NavContent, NavOffset) = NilResult

EmptyOrNull(r) == r.null \/ r.items = <<>>

C12_Answered ==
    /\ nreq # NoQuery
    /\ nresp.sent
    /\ ~EmptyOrNull(nresp.result)

(***************************************************************************)
(* C13.  The consumer before the root path.                                *)
(***************************************************************************)
\* the consumer has drained nothing, stored nothing and published nothing
NothingConsumed ==
    /\ consPc = "waitRoot"
    /\ muTextFromClient # "consumer"
    /\ batchNo = 0
    /\ cloneTextFromClient = EmptyMap
    /\ RawFiles = EmptyMap
    /\ FileTypes = EmptyMap
    /\ Diagnostics = EmptyMap
    /\ workers = EmptyMap
    /\ \A u \in Uris : trace[u] = <<>>

\* C13: as long as initialize has not handed the root path over, the
\* consumer waits for it: it has drained no batch, written nothing to the
\* store and published nothing, whatever edits have been received; and
\* nothing an edit puts in the pending map is taken out of it.
C13_StartsWithRoot ==
    ~RootKnown =>
        /\ NothingConsumed
        /\ \A i \in 1 .. Len(sinceDrain) :
               sinceDrain[i].uri \in DOMAIN textFromClient

\* every edit of the run has been received, a signal is posted, and the root
\* path is still not known
C13_Witness ==
    /\ ~RootKnown
    /\ edits = MaxEdits
    /\ mainPc = "read"
    /\ textChangedNotification = 1
    /\ DOMAIN textFromClient # {}
    /\ NothingConsumed

(***************************************************************************)
(* C14.  The pending edits after a shutdown.                               *)
(***************************************************************************)
\* the step adds no entry to the pending map and changes none
NoEntryAddedOrChanged ==
    \A u \in DOMAIN textFromClient' :
        /\ u \in DOMAIN textFromClient
        /\ textFromClient'[u] = textFromClient[u]

\* C14: once a shutdown request has been processed, no step adds or changes
\* an entry of the pending map or posts a signal, and no message is taken as
\* an edit; the consumer may still drain what was pending.
C14_NoEditAfterShutdown ==
    [][isExiting =>
          /\ NoEntryAddedOrChanged
          /\ textChangedNotification' <= textChangedNotification
          /\ edits' = edits
          /\ mainPc' \notin {"insLock", "insWrite", "insPost", "insUnlock"}]_vars

\* the shutdown is answered and main reads the next message, while an edit
\* is pending, no signal is posted and the client has edits left to send
C14_Witness ==
    /\ isExiting
    /\ mainPc = "read"
    /\ edits > 0
    /\ edits < MaxEdits
    /\ DOMAIN textFromClient # {}
    /\ textChangedNotification = 0

(***************************************************************************)
(* C15.  The context of a batch while its workers run.                     *)
(***************************************************************************)
\* a worker of the batch has been started and has not finished
WorkerRunning == \E u \in DOMAIN workers : workers[u] = "running"

\* an edit received since the batch was drained waits in the pending map
EditDuringBatch ==
    \E u \in DOMAIN textFromClient :
        /\ u \in DOMAIN RawFiles
        /\ textFromClient[u].seq > RawFiles[u].seq

\* C15: while a worker of a batch runs, no step of any goroutine changes
\* the contents, the kinds or the manifest of the context the workers were
\* handed, nor the contents the workers validate, whatever edits arrive.
C15_SnapshotImmutable ==
    [][WorkerRunning =>
          /\ Ctx' = Ctx
          /\ filesToValidate' = filesToValidate]_vars

\* a worker runs on a context with a manifest while a later edit of a file
\* of the store is pending
C15_Witness ==
    /\ WorkerRunning
    /\ EditDuringBatch
    /\ ctxManifest # Nil
    /\ \E u \in DOMAIN workers : workers[u] = "done"

(***************************************************************************)
(* C16.  The store when a document is closed.                              *)
(***************************************************************************)
\* the step is the handling of a didClose
Closes == closed' # closed /\ closed \subseteq closed'

\* a batch that a change of a package document has widened is to be started
WidenedBatch == consPc = "spawn" /\ opfChanged

\* C16: the handling of a didClose changes no content, kind or diagnostics of
\* the store, for the closed document or any other; no step takes a URI out
\* of the store; and a batch widened by a change of a package document
\* validates every document of the store, the closed ones included.
C16_CloseKeepsStore ==
    /\ [][Closes => UNCHANGED <<RawFiles, FileTypes, Diagnostics>>]_vars
    /\ [][DOMAIN RawFiles \subseteq DOMAIN RawFiles']_vars
    /\ [](WidenedBatch =>
             /\ DOMAIN RawFiles \subseteq DOMAIN filesToValidate
             /\ \A u \in closed : filesToValidate[u] = RawFiles[u])

\* a closed document that the batch did not drain is validated again, with
\* the content it had, in a batch that a later change of the package document
\* has widened
C16_Witness ==
    /\ DocUri \in closed
    /\ opfChanged
    /\ batchNo = 2
    /\ DocUri \notin DOMAIN cloneTextFromClient
    /\ DocUri \in DOMAIN workers
    /\ workers[DocUri] = "running"
    /\ filesToValidate[DocUri] = RawFiles[DocUri]
    /\ RawFiles[DocUri].seq < RawFiles[OpfUri].seq

(***************************************************************************)
(* C17.  The drain is one critical section.                                *)
(***************************************************************************)
\* the consumer is between its Lock (252) and its Unlock (268)
InDrain == consPc \in {"copy", "clear", "drainSig", "unlock"}

\* main is between its Lock (198) and its Unlock (205)
InInsert == mainPc \in {"insWrite", "insPost", "insUnlock"}

\* the drain excludes the insert, the map is at the clear what it was at the
\* copy, and it is empty from the clear to the unlock
OneCriticalSection ==
    /\ InDrain => muTextFromClient = "consumer" /\ ~InInsert
    /\ InInsert => muTextFromClient = "main"
    /\ consPc = "clear" => cloneTextFromClient = Targets(textFromClient)
    /\ consPc \in {"drainSig", "unlock"} => textFromClient = EmptyMap

\* the edits written since the last drain that the claim is about
DrainedOrReplaced(idx) ==
    \A i \in idx :
        \/ Replaced(sinceDrain[i].content.seq)
        \/ /\ sinceDrain[i].uri \in DOMAIN cloneTextFromClient
           /\ cloneTextFromClient[sinceDrain[i].uri] = sinceDrain[i].content

TargetEdits ==
    {i \in DOMAIN sinceDrain : hasTargetExtension(sinceDrain[i].uri)}

\* the copy takes only contents written since the last drain, which no
\* earlier batch has held: the store has an older content for the URI or none
NewToTheStore ==
    \A u \in DOMAIN cloneTextFromClient' :
        /\ \E i \in DOMAIN sinceDrain :
               sinceDrain[i].uri = u /\ sinceDrain[i].content = cloneTextFromClient'[u]
        /\ u \in DOMAIN RawFiles => RawFiles[u].seq < cloneTextFromClient'[u].seq

\* C17 as stated: the drain is one critical section, every edit written
\* since the last drain is superseded or in the batch, and no edit is in two
\* batches.
C17_AtomicDrain ==
    /\ []OneCriticalSection
    /\ [](consPc = "unlock" => DrainedOrReplaced(DOMAIN sinceDrain))
    /\ [][(consPc = "copy" /\ consPc' = "clear") => NewToTheStore]_vars

\* C17 amended: the drain is one critical section of the lock, so no edit is
\* inserted between the copy and the clear; every edit to a URI with a target
\* extension written since the last drain is superseded by a later edit to
\* the same URI or is in the batch of this drain, and no edit is in two
\* batches.  (An edit to any other URI is cleared without entering a batch.)
C17_AtomicDrainOfTargets ==
    /\ []OneCriticalSection
    /\ [](consPc = "unlock" => DrainedOrReplaced(TargetEdits))
    /\ [][(consPc = "copy" /\ consPc' = "clear") => NewToTheStore]_vars

\* a drain is at its clear with an edit superseded and an edit in the batch,
\* while main waits for the lock with the next edit
C17_Witness ==
    /\ consPc = "clear"
    /\ mainPc = "insLock"
    /\ \E i \in TargetEdits : Replaced(sinceDrain[i].content.seq)
    /\ \E u \in DOMAIN cloneTextFromClient :
           u \in DOMAIN RawFiles /\ hasTargetExtension(u)

(***************************************************************************)
(* C18.  The accesses to the pending map and the lock.                     *)
(***************************************************************************)
\* main is at its write of the map (199)
MainWrites == mainPc = "insWrite"

\* the consumer is at a read or a write of the map: len (248), the range of
\* the copy (255), clear (263)
ConsumerAccesses == consPc \in {"checkLen", "copy", "clear"}

\* the consumer reads the length of the map while main is at its write
ReadRacesWithWrite == consPc = "checkLen" /\ MainWrites

\* C18: every read and every write of the pending map is made by a goroutine
\* that holds muTextFromClient, and no access is concurrent with a write.
C18_MapUnderLock ==
    /\ MainWrites => muTextFromClient = "main"
    /\ ConsumerAccesses => muTextFromClient = "consumer"
    /\ ~ReadRacesWithWrite

(***************************************************************************)
(* C19.  Accepting an edit does not wait for validation.                   *)
(***************************************************************************)
\* a validator runs or a notification is being written
Validating ==
    \/ \E u \in DOMAIN workers : workers[u] = "running"
    \/ consPc \in {"publish", "pubSend"}

\* C19: the signal channel never holds more than one signal, so the post of
\* insertTextDocumentToDiagnostic finds room whenever it is reached; and the
\* consumer holds muTextFromClient only from the Lock to the Unlock of its
\* drain, never while a validator runs or a notification is written.
C19_AcceptNeverWaits ==
    /\ textChangedNotification <= 1
    /\ mainPc = "insPost" => PostIfEmpty(textChangedNotification) <= ChanCap
    /\ muTextFromClient = "consumer" => InDrain /\ ~Validating

\* main holds the lock and is at its post, a signal being already in the
\* channel, while a worker of an earlier batch runs
C19_Witness ==
    /\ mainPc = "insPost"
    /\ muTextFromClient = "main"
    /\ textChangedNotification = 1
    /\ \E u \in DOMAIN workers : workers[u] = "running"

(***************************************************************************)
(* C20.  The barrier at the end of a batch.                                *)
(***************************************************************************)
\* the consumer is in the range over the results of a batch (333-336)
Collecting == consPc \in {"collect", "publish", "pubSend"}

\* the step leaves the range over the results
LeavesBatch == Collecting /\ ~Collecting'

\* every file of the batch has its result stored and published
AllPublished ==
    \A u \in DOMAIN workers :
        /\ workers[u] = "done"
        /\ EventsIn(u, "store") # {}
        /\ EventsIn(u, "publish") # {}

\* C20: the consumer leaves a batch only when every worker of it has
\* finished and every result has been stored and published; outside the
\* range over the results no worker exists and no result waits, so the next
\* drain and the next workers start after the last worker of the batch.
C20_BatchBarrier ==
    /\ [](~Collecting => workers = EmptyMap /\ results = <<>>)
    /\ [][LeavesBatch => results = <<>> /\ AllPublished]_vars
    /\ [][consPc = "spawn" /\ consPc' = "collect" =>
              \A u \in DOMAIN workers' : EventsIn(u, "store")' = {}]_vars

\* the second batch is being drained: the first is published and none of
\* its workers is left
C20_Witness ==
    /\ consPc = "copy"
    /\ batchNo = 1
    /\ workers = EmptyMap
    /\ \E u \in Uris : EventsIn(u, "publish") # {}
    /\ Cardinality({u \in Uris : EventsIn(u, "publish") # {}}) = 2

(***************************************************************************)
(* C21.  The writes to the outbound stream.                                *)
(***************************************************************************)
\* main is inside SendToLspClient (114, 172)
MainSends == mainPc = "send"

\* the consumer is inside SendToLspClient (379)
ConsumerSends == consPc = "pubSend"

\* C21: a response of the message loop and a notification of the publisher
\* are never written at the same time: whoever is inside SendToLspClient
\* holds muStdout.
C21_StdoutExclusive ==
    /\ MainSends => muStdout = "main"
    /\ ConsumerSends => muStdout = "consumer"
    /\ ~(MainSends /\ ConsumerSends)

\* the publisher writes a notification while the message loop has a response
\* ready and waits for the lock
C21_Witness ==
    /\ ConsumerSends
    /\ muStdout = "consumer"
    /\ mainPc = "respond"

(***************************************************************************)
(* C22.  The context is complete before the validators run.                *)
(***************************************************************************)
\* the kind of every file to validate is the kind of its content
KindsDetected ==
    \A u \in DOMAIN filesToValidate :
        /\ u \in DOMAIN FileTypes
        /\ FileTypes[u] = DetectFileType(u, filesToValidate[u])

\* the manifest of the context is parsed from a package document of the
\* store as the drain of this batch left it; absent when there is none
ManifestFromStore ==
    IF ManifestSources = {} THEN ctxManifest = Nil
    ELSE \E u \in ManifestSources : ctxManifest = ParseManifest(RawFiles[u])

\* a batch that holds a package document ParseManifest accepts has the
\* manifest of an edit of this batch
ManifestOfBatch ==
    (\E u \in DOMAIN cloneTextFromClient :
         /\ DetectFileType(u, cloneTextFromClient[u]) = "OPF"
         /\ ParseManifest(cloneTextFromClient[u]) # Nil)
    => \E u \in DOMAIN cloneTextFromClient :
           ctxManifest = ParseManifest(cloneTextFromClient[u])

\* every result of the batch was computed on that context
ValidatedOnContext ==
    /\ \A i \in DOMAIN results :
           results[i].diags =
               ValidateFile(results[i].uri, results[i].of,
                            FileTypes[results[i].uri], Ctx)
    /\ \A u \in DOMAIN workers :
           \A i \in EventsIn(u, "store") :
               trace[u][i].diags =
                   ValidateFile(u, trace[u][i].of, FileTypes[u], Ctx)

\* C22: from the start of the workers of a batch to its end, the kinds of
\* the files are detected and the context has the manifest parsed from the
\* store as this batch's drain left it; a batch with a change of the package
\* document has the manifest of that change, and every result of the batch
\* is the validation against that context.
C22_ContextBeforeValidators ==
    InValidation =>
        /\ KindsDetected
        /\ ManifestFromStore
        /\ ManifestOfBatch
        /\ ValidatedOnContext

(***************************************************************************)
(* C23.  The element LocateAtPosition returns, by the spans the locator    *)
(* resolves.                                                               *)
(***************************************************************************)
\* the span of n, from its start to its resolved end, covers o
Covers(n, o) ==
    /\ ltree[n].Offset <= o
    /\ o <= findElementEnd(ldoc, ltree[n].Offset, ltree[n].Local)

RECURSIVE Depth(_)
Depth(n) == IF ltree[n].Parent = 0 THEN 1 ELSE 1 + Depth(ltree[n].Parent)

RECURSIVE IsAncestor(_, _)
IsAncestor(a, n) ==
    /\ ltree[n].Parent # 0
    /\ (ltree[n].Parent = a \/ IsAncestor(a, ltree[n].Parent))

\* n covers o and no descendant of n does
Innermost(n, o) ==
    /\ Covers(n, o)
    /\ \A m \in LocNodes : IsAncestor(n, m) => ~Covers(m, o)

\* every resolved end is the end of the element
ExactEnds == NoPrefixedElement /\ \A n \in LocNodes : OwnEndTagFirst(n)

\* C23 as stated: for an offset in the document, nil is returned only when
\* no element covers the offset; otherwise the element returned covers it,
\* no covering element is deeper, and no other covering element is as deep.
C23_UniqueDeepest ==
    (lop = "locate" /\ ~OutOfRange(loff)) =>
        /\ lres.Node = 0 <=> \A n \in LocNodes : ~Covers(n, loff)
        /\ lres.Node # 0 =>
              /\ Covers(lres.Node, loff)
              /\ \A m \in LocNodes :
                    Covers(m, loff) =>
                        \/ Depth(m) < Depth(lres.Node)
                        \/ m = lres.Node

\* C23 amended: nil is returned only when no element covers the offset;
\* otherwise the element returned is the first, in document order, of the
\* elements that cover the offset and have no covering descendant; it is the
\* one deepest covering element when no element name has a prefix and every
\* element's own end tag is the first "</local" after its start tag.
C23_FirstInnermost ==
    (lop = "locate" /\ ~OutOfRange(loff)) =>
        /\ lres.Node = 0 <=> \A n \in LocNodes : ~Covers(n, loff)
        /\ lres.Node # 0 =>
              /\ Innermost(lres.Node, loff)
              /\ \A m \in LocNodes : Innermost(m, loff) => lres.Node <= m
              /\ ExactEnds =>
                    \A m \in LocNodes :
                        Covers(m, loff) =>
                            \/ Depth(m) < Depth(lres.Node)
                            \/ m = lres.Node

\* inside another covering element, and with a later element of the same depth
\* whose span covers the offset too
C23_Witness ==
    /\ lop = "locate"
    /\ lres.Node # 0
    /\ \E m \in LocNodes : IsAncestor(m, lres.Node) /\ Covers(m, loff)
    /\ \E m \in LocNodes :
          /\ lres.Node < m
          /\ Covers(m, loff)
          /\ Depth(m) = Depth(lres.Node)

(***************************************************************************)
(* C24.  What the attribute locator accepts, and the in-value flag.        *)
(***************************************************************************)
\* the bytes of text from offset i up to offset j are white space
BlankBetween(text, i, j) == \A k \in i .. j - 1 : At(text, k) \in WhiteSpace

\* at offset p of text stands name, then optional white space, '=', optional
\* white space and value between two quotes of one kind
AcceptedAt(text, p, name, value) ==
    /\ p + Len(name) <= Len(text)
    /\ Slice(text, p, p + Len(name)) = name
    /\ \E e \in p + Len(name) .. Len(text) - 1 :
          /\ BlankBetween(text, p + Len(name), e)
          /\ At(text, e) = "="
          /\ \E q \in e + 1 .. Len(text) - 1 :
                /\ BlankBetween(text, e + 1, q)
                /\ At(text, q) \in Quotes
                /\ q + 1 + Len(value) < Len(text)
                /\ Slice(text, q + 1, q + 1 + Len(value)) = value
                /\ At(text, q + 1 + Len(value)) = At(text, q)
                /\ \A k \in 1 .. Len(value) : value[k] # At(text, q)

\* the text of the start tag of n
TagText(n) == Slice(ldoc, ltree[n].Offset, ltree[n].Src.TagEnd + 1)

\* findAttributeInTag finds attribute k of n where an accepted occurrence
\* stands, and finds none only when no occurrence is accepted
AcceptsAsStated(n, k) ==
    LET name == attrNameOf(TagText(n), ltree[n].Attrs[k])
        value == ltree[n].Attrs[k].Value
        pos == findAttributeInTag(TagText(n), name, value)
    IN  IF pos >= 0
        THEN AcceptedAt(TagText(n), pos, name, value)
        ELSE \A p \in 0 .. Len(TagText(n)) - 1 :
                ~AcceptedAt(TagText(n), p, name, value)

\* o lies in the value of attribute k of n: after the opening quote and not
\* after the closing one
InQuotedValue(n, k, o) ==
    ltree[n].Src.Attrs[k].ValAt <= o /\ o <= ltree[n].Src.Attrs[k].ValEnd

\* some attribute of n has white space next to its '='
BlankAtEquals(n) ==
    \E k \in 1 .. Len(ltree[n].Src.Attrs) :
        \E i \in ltree[n].Src.Attrs[k].NameAt .. ltree[n].Src.Attrs[k].ValAt - 1 :
            At(ldoc, i) \in WhiteSpace

\* C24 as stated: an occurrence of the attribute name is accepted only when
\* optional white space, '=', optional white space and the quoted known value
\* follow it, the scan going on past the occurrences that fail; and when an
\* attribute is reported for an offset, the in-value flag is true exactly when
\* the offset lies inside the quoted value of that attribute in the source,
\* with or without white space around the '='.
C24_AttributeValueFlag ==
    lop = "locate" =>
        /\ \A n \in LocNodes :
              \A k \in 1 .. Len(ltree[n].Attrs) : AcceptsAsStated(n, k)
        /\ lres.Attr # 0 =>
              (lres.InValue <=> InQuotedValue(lres.Node, lres.Attr, loff))

\* the same without white space next to the '=' of any attribute of the tag
C24_FlagWithoutBlanks ==
    lop = "locate" =>
        /\ \A n \in LocNodes :
              \A k \in 1 .. Len(ltree[n].Attrs) : AcceptsAsStated(n, k)
        /\ (lres.Attr # 0 /\ ~BlankAtEquals(lres.Node)) =>
              (lres.InValue <=> InQuotedValue(lres.Node, lres.Attr, loff))

(***************************************************************************)
(* C25.  A batch without a usable package document.                        *)
(***************************************************************************)
\* a package document of the store that is well formed and has a package
\* element
Usable(u) ==
    /\ FileTypes[u] = "OPF"
    /\ XmlDiags(RawFiles[u]) = <<>>
    /\ HasPackage(RawFiles[u])

NoUsablePackage == \A u \in DOMAIN RawFiles : ~Usable(u)

\* the workers of the batch are those of the files the batch is to validate
WorkersForAll == DOMAIN workers = Expected

\* C25: while a batch is validated, the context has no manifest when the
\* store holds no package document or only malformed or package-less ones,
\* and has the manifest of a usable package document when there is one,
\* whatever malformed ones stand beside it; and a batch without a manifest
\* ends only with a worker for every file of it and every result stored and
\* published.
C25_NoManifestNoFailure ==
    /\ []((InValidation /\ NoUsablePackage) => ctxManifest = Nil)
    /\ []((InValidation /\ ~NoUsablePackage) =>
              /\ ctxManifest # Nil
              /\ \E u \in DOMAIN RawFiles :
                    Usable(u) /\ ctxManifest = ParseManifest(RawFiles[u]))
    /\ [][(LeavesBatch /\ ctxManifest = Nil) =>
              WorkersForAll /\ AllPublished]_vars

\* the batch is over, the store holds a malformed package document and no
\* usable one, and a content document that refers to a resource has been
\* published without a finding
C25_Witness ==
    /\ BatchOver
    /\ ctxManifest = Nil
    /\ \E u \in DOMAIN RawFiles :
          FileTypes[u] = "OPF" /\ XmlDiags(RawFiles[u]) # <<>>
    /\ WorkersForAll
    /\ AllPublished
    /\ \E u \in DOMAIN workers :
          /\ ResourceRefs(RawFiles[u]) # {}
          /\ \E i \in EventsIn(u, "publish") : trace[u][i].diags = <<>>

(***************************************************************************)
(* C26.  The structural diagnostic of a malformed document.                *)
(***************************************************************************)
\* the diagnostic parser.Parse gives for input that is not well formed
IsStructural(code) == code = "epub-xml"

\* the publications of the batch for u with malformed content
MalformedPublished(u) ==
    {i \in EventsIn(u, "publish") : XmlDiags(trace[u][i].of) # <<>>}

\* C26: a malformed file of a batch, of any kind, is validated like the
\* others, its result is published, and the diagnostics published for it,
\* from all the validators of its kind together, hold at most one
\* well-formedness diagnostic.
C26_OneStructuralDiagnostic ==
    /\ \A u \in DOMAIN workers :
          (workers[u] = "done" /\ XmlDiags(filesToValidate[u]) # <<>>) =>
              \/ \E i \in DOMAIN results : results[i].uri = u
              \/ EventsIn(u, "store") # {}
    /\ \A u \in DOMAIN workers :
          \A i \in MalformedPublished(u) :
              Len(SelectSeq(trace[u][i].diags, IsStructural)) <= 1

(***************************************************************************)
(* C27.  A drain that leaves an empty batch.                               *)
(***************************************************************************)
\* the drain has copied nothing: no pending URI had a target extension
EmptyBatch ==
    /\ consPc \in {"clear", "drainSig", "unlock"}
    /\ cloneTextFromClient = EmptyMap

\* C27: a drain of a pending map without a URI of a target extension stores
\* nothing; from the copy to the end of that drain no entry of the store or
\* of the diagnostics changes, no worker exists or is started, no
\* notification is sent and no batch is counted; and the consumer goes from
\* the drain back to waiting for a signal.
C27_EmptyBatchNoOp ==
    /\ [][(consPc = "copy" /\ Targets(textFromClient) = EmptyMap) =>
              (RawFiles' = RawFiles /\ Diagnostics' = Diagnostics)]_vars
    /\ [](EmptyBatch => (workers = EmptyMap /\ results = <<>>))
    /\ [][EmptyBatch =>
              /\ RawFiles' = RawFiles
              /\ FileTypes' = FileTypes
              /\ Diagnostics' = Diagnostics
              /\ trace' = trace
              /\ workers' = EmptyMap
              /\ batchNo' = batchNo
              /\ consPc' \in {"clear", "drainSig", "unlock", "waitSig"}]_vars

\* the drain of an edit of notes.txt alone, after a batch that filled the
\* store, is about to end
C27_Witness ==
    /\ EmptyBatch
    /\ consPc = "unlock"
    /\ RawFiles # EmptyMap
    /\ batchNo >= 1
    /\ \E i \in DOMAIN sinceDrain : sinceDrain[i].uri = TxtUri

(***************************************************************************)
(* C28.  The choice of the manifest among several package documents.       *)
(***************************************************************************)
\* the step builds the context of a batch
BuildsSnapshot == consPc = "snapshot" /\ consPc' = "select"

\* C28: the manifest of a snapshot is a function of the store: the Manifest
\* Info a build selects is the one of every package document of the store
\* that ParseManifest accepts, so another build over the same store, in
\* whatever order it meets the documents, selects the same.
C28_DeterministicManifest ==
    [][BuildsSnapshot =>
           \A u \in ManifestSources :
               /\ ~ctxManifest'.nil
               /\ ctxManifest'.Items = ManifestItems(RawFiles[u])]_vars

(***************************************************************************)
(* C29.  The edits that come before initialize.                            *)
(***************************************************************************)
\* the pending map holds, for every URI written, the content of the last
\* write
Accumulated ==
    /\ DOMAIN textFromClient = {sinceDrain[i].uri : i \in DOMAIN sinceDrain}
    /\ \A u \in DOMAIN textFromClient : textFromClient[u] = LatestOf(u)

\* one signal for all the edits written, once the first is posted
OneSignal ==
    /\ textChangedNotification <= 1
    /\ (sinceDrain # <<>> /\ mainPc # "insPost") => textChangedNotification = 1

\* main finds the lock free and room for the signal
NothingToWaitFor ==
    /\ muTextFromClient # "consumer"
    /\ mainPc = "insLock" => muTextFromClient = "free"
    /\ mainPc = "insPost" => PostIfEmpty(textChangedNotification) <= ChanCap

\* the consumer has not copied anything yet
BeforeFirstCopy ==
    /\ batchNo = 0
    /\ consPc \in {"waitRoot", "waitSig", "checkLen", "lock", "copy"}

\* the step is the copy of the drain
Copies == consPc = "copy" /\ consPc' = "clear"

\* the batch has published the content it drained for u
PublishedAsDrained(u) ==
    \E i \in EventsIn(u, "publish") : trace[u][i].of = cloneTextFromClient[u]

\* the root path has been sent, the consumer has not taken it yet and a URI
\* with a target extension is pending
PendingAtRoot ==
    /\ RootKnown
    /\ consPc = "waitRoot"
    /\ Targets(textFromClient) # EmptyMap

\* the first batch is over
FirstBatchDone == batchNo >= 1 /\ consPc = "waitSig"

\* C29: as long as the root path is not known, every edit written stays in
\* the pending map (the last content for each URI), one signal is posted for
\* all of them and main finds the lock free and room for the signal; the
\* map keeps them until the first copy, which takes every pending URI with a
\* target extension into the first batch; the first batch ends only when
\* what it drained is published; and, under a fair scheduler and for as long
\* as the process runs, what is pending when the root path is sent leads to
\* the end of the first batch.
C29_EarlyEditsKept ==
    /\ [](~RootKnown => (Accumulated /\ OneSignal /\ NothingToWaitFor))
    /\ [](BeforeFirstCopy => Accumulated)
    /\ [][Copies => cloneTextFromClient' = Targets(textFromClient)]_vars
    /\ [][(LeavesBatch /\ batchNo = 1) =>
              \A u \in DOMAIN cloneTextFromClient : PublishedAsDrained(u)]_vars
    /\ PendingAtRoot ~> (FirstBatchDone \/ ~Running)

\* the answer to initialize is about to be sent and the consumer has yet to
\* take the root path; three edits of two documents were written before,
\* the last contents are pending with one signal
C29_Witness ==
    /\ PendingAtRoot
    /\ mainPc = "respond"
    /\ edits = MaxEdits
    /\ Len(sinceDrain) = MaxEdits
    /\ DOMAIN textFromClient = {OpfUri, DocUri}
    /\ textChangedNotification = 1

(***************************************************************************)
(* C30.  The store and the client when nothing is left to do.              *)
(***************************************************************************)
\* the root path is known, nothing is pending, no signal waits and the
\* consumer waits for one
Quiescent ==
    /\ RootKnown
    /\ textFromClient = EmptyMap
    /\ textChangedNotification = 0
    /\ consPc = "waitSig"

\* the URIs with a target extension that were edited
EverEdited == {u \in DOMAIN lastEdit : hasTargetExtension(u)}

\* the manifest the store as it is gives to a context
ManifestNow ==
    IF ManifestSources = {} THEN {Nil}
    ELSE {ParseManifest(RawFiles[u]) : u \in ManifestSources}

\* the validation of the last edit of u against the store as it is
ValidationsOfLast(u) ==
    {ValidateFile(u, lastEdit[u], DetectFileType(u, lastEdit[u]),
                  [Files |-> RawFiles, FileTypes |-> FileTypes, Manifest |-> m]) :
        m \in ManifestNow}

\* C30: at quiescence, for every URI with a target extension that was
\* edited, the store holds the content of the last edit, the diagnostics the
\* store keeps for it are the validation of that content, and they are the
\* diagnostics of the last notification published for it.
C30_QuiescentConsistency ==
    Quiescent =>
        \A u \in EverEdited :
            /\ u \in DOMAIN RawFiles
            /\ RawFiles[u] = lastEdit[u]
            /\ u \in DOMAIN Diagnostics
            /\ Diagnostics[u] \in ValidationsOfLast(u)
            /\ Published(u) # <<>>
            /\ Published(u)[Len(Published(u))].diags = Diagnostics[u]
            /\ Published(u)[Len(Published(u))].of = lastEdit[u]

\* quiescence after two batches: the content document was validated without
\* a manifest first, and again, with a finding, when the package document
\* came
C30_Witness ==
    /\ Quiescent
    /\ batchNo = 2
    /\ mainPc = "read"
    /\ EverEdited = {OpfUri, DocUri}
    /\ Len(Published(DocUri)) = 2
    /\ Published(DocUri)[1].diags = <<>>
    /\ Diagnostics[DocUri] # <<>>

=============================================================================
